---- MODULE Spec2Model ----
(***************************************************************************)
(* Model of the hash-cache synchronisation core of bizmanage-cli:          *)
(*   HashCacheService        (services/hash-cache.ts)                      *)
(*   ProjectStructureService (services/project-structure.ts)               *)
(*   PushService             (services/push.ts)                            *)
(*   pull / status commands                                                *)
(*                                                                         *)
(* Three specifications share the definitions:                             *)
(*   Spec      - the CLI commands (pull, push, push --all, status) run one *)
(*               at a time against one project, with local edits of the    *)
(*               pulled files between the runs;                            *)
(*   SpecForce - push, push --all and status on a tree where the user also *)
(*               keeps a file outside the four source folders;             *)
(*   SpecCache - one long-lived HashCacheService instance driven through   *)
(*               its public methods in any order.                          *)
(*                                                                         *)
(* A path is a record [dir, base, ext]: dir is the sequence of directory   *)
(* segments below the project root, base and ext are the file name.        *)
(* File contents are strings; a digest is a string too.                    *)
(***************************************************************************)
EXTENDS Naturals, Sequences, FiniteSets, TLC

\* ------------------------------------------------------------------ bounds

\* Longest item list one remote fetch returns.
MaxItems == 2

\* ------------------------------------------------------------ the universe

FieldF == [dir |-> <<"src", "objects", "t1", "fields">>, base |-> "f1", ext |-> ".json"]
ScriptJs == [dir |-> <<"src", "backend">>, base |-> "s1", ext |-> ".js"]
ScriptJson == [dir |-> <<"src", "backend">>, base |-> "s1", ext |-> ".json"]
StrayQ == [dir |-> <<"src", "misc", "reports">>, base |-> "q", ext |-> ".sql"]

\* The placeholder that keeps an empty category folder in git: a file whose
\* name starts with a dot (no base name, the whole name is the extension).
GitKeep == [dir |-> <<"src", "backend">>, base |-> "", ext |-> ".gitkeep"]

\* A file the user keeps inside a table's folder: under src/objects, but neither
\* a definition nor below an actions or fields folder.
Notes == [dir |-> <<"src", "objects", "t1">>, base |-> "notes", ext |-> ".txt"]

\* The files of the project tree that the model follows.
Files == {FieldF, ScriptJs, ScriptJson, StrayQ, GitKeep, Notes}

\* Directory enumeration order (readdir): by path.
FileOrder == <<GitKeep, ScriptJs, ScriptJson, StrayQ, FieldF, Notes>>

\* The files pull writes and the change classifier scans.
TrackedFiles == {FieldF, ScriptJs, ScriptJson}

\* The files the SpecCache harness passes to the service.
ApiFiles == {ScriptJs, FieldF}

\* Directory holding the project, as segments of its absolute path.
ProjectRoot == <<"home", "proj">>

Absent == "<absent>"
NoHash == "<nohash>"

\* Remote names as the platform returns them (sequences of characters).
TableName == <<"T", "1">>
FieldName == <<"F", "1">>
FieldNameLower == <<"f", "1">>
ScriptName == <<"S", "1", "!">>
ActionName == <<"D", "e", "f", "i", "n", "i", "t", "i", "o", "n">>

\* JSON values: the definitions of two fields whose names differ by case only,
\* and a script's metadata.
FieldData == {[id |-> "7", internal_name |-> n, rev |-> "1"] : n \in {FieldName, FieldNameLower}}
ScriptMeta == [name |-> ScriptName, rev |-> "1"]
ScriptCode == {"a", "b"}

\* What one fetch can return, item by item.
FieldItems == FieldData
ScriptItems == {[name |-> ScriptName, code |-> c, metadata |-> ScriptMeta] : c \in ScriptCode}

\* ---------------------------------------------------------- pure functions

RECURSIVE Join(_)
Join(chars) == IF chars = <<>> THEN "" ELSE Head(chars) \o Join(Tail(chars))

UpperCase == <<"A", "B", "C", "D", "E", "F", "G", "H", "I", "J", "K", "L", "M",
               "N", "O", "P", "Q", "R", "S", "T", "U", "V", "W", "X", "Y", "Z">>
LowerCase == <<"a", "b", "c", "d", "e", "f", "g", "h", "i", "j", "k", "l", "m",
               "n", "o", "p", "q", "r", "s", "t", "u", "v", "w", "x", "y", "z">>

ToLowerCase(ch) ==
    IF \E i \in 1..Len(UpperCase) : UpperCase[i] = ch
    THEN LowerCase[CHOOSE i \in 1..Len(UpperCase) : UpperCase[i] = ch]
    ELSE ch

IsAlnum(ch) ==
    \/ ch \in {"0", "1", "2", "3", "4", "5", "6", "7", "8", "9"}
    \/ \E i \in 1..Len(LowerCase) : LowerCase[i] = ch

\* .replace(/-+/g, '-')
RECURSIVE CollapseHyphens(_)
CollapseHyphens(chars) ==
    IF Len(chars) < 2 THEN chars
    ELSE IF chars[1] = "-" /\ chars[2] = "-" THEN CollapseHyphens(Tail(chars))
    ELSE <<chars[1]>> \o CollapseHyphens(Tail(chars))

\* .replace(/^-|-$/g, '')
StripHyphens(chars) ==
    LET a == IF chars # <<>> /\ Head(chars) = "-" THEN Tail(chars) ELSE chars
    IN IF a # <<>> /\ a[Len(a)] = "-" THEN SubSeq(a, 1, Len(a) - 1) ELSE a

\* The replace chain of sanitizeName, character by character.
SanitizeChars(name) ==
    LET lower == [i \in 1..Len(name) |-> ToLowerCase(name[i])]
        hyph == [i \in 1..Len(name) |-> IF IsAlnum(lower[i]) THEN lower[i] ELSE "-"]
    IN Join(StripHyphens(CollapseHyphens(hyph)))

\* The names the remote platform can return, and their sanitised forms
\* (computed once).
RemoteNames == {TableName, FieldName, FieldNameLower, ScriptName, ActionName}
SanitizedNames == [name \in RemoteNames |-> SanitizeChars(name)]

sanitizeName(name) == SanitizedNames[name]

\* JSON.stringify(data, null, 2) of the two shapes of value the model uses.
JSONStringify(data) ==
    IF "internal_name" \in DOMAIN data
    THEN "{internal_name:" \o Join(data.internal_name) \o ",rev:" \o data.rev \o
         (IF "id" \in DOMAIN data THEN ",id:" \o data.id ELSE "") \o "}"
    ELSE "{name:" \o Join(data.name) \o ",rev:" \o data.rev \o "}"

\* fs.writeJSON: the stringified value followed by the final end of line.
WriteJSONBytes(data) == JSONStringify(data) \o "\n"

\* crypto sha256 hex digest, taken as collision free.
calculateHash(content) == "sha256:" \o content

\* const { id, ...fieldWithoutId } = field
FieldWithoutId(field) == [k \in (DOMAIN field) \ {"id"} |-> field[k]]

\* What a file can hold: what pull writes there, or a local edit of it.
ContentsOf(p) ==
    IF p = FieldF THEN {WriteJSONBytes(FieldWithoutId(d)) : d \in FieldData}
    ELSE IF p = ScriptJson THEN {WriteJSONBytes(ScriptMeta)}
    ELSE IF p = ScriptJs THEN ScriptCode
    ELSE IF p = GitKeep THEN {""}
    ELSE IF p = Notes THEN {"todo"}
    ELSE {"select 1"}

\* ------------------------------------------------------------------ state

VARIABLES
    fs,         \* local disk: path -> content, or Absent
    dirs,       \* directories that exist below the project root
    cacheFile,  \* .bizmanage/file-hashes.json: missing, or its hashes mapping
    cache,      \* HashCacheService.cache.hashes of the running process, or Null
    pc,         \* position of the running command
    queue,      \* items the running loop has still to process
    result,     \* PullResult / PushResult being built, with the exit code
    io,         \* completed writes, transmissions and saves of the running command
    report,     \* Change Report of the last getChanges call (status), kept while
                \* the tree and the saved cache are as it saw them, and through
                \* a push or a clear that follows it
    call,       \* SpecCache: the method call that has just returned
    written,    \* SpecCache: path -> the content the service last wrote there
                \* through a conditional write, or Absent once the cache was
                \* cleared, the entry overwritten, or the file touched by the user
    auth,       \* SpecAuth: the two configuration stores of AuthService and the
                \* outcome of the last login, logout or getConfig
    runs,       \* SpecRace: two command runs on the same project, each with the
                \* HashCacheService of its own process
    active      \* SpecSteps: the asynchronous operations of the running command
                \* that have been started and have not returned

vars == <<fs, dirs, cacheFile, cache, pc, queue, result, io, report, call, written, auth, runs,
         active>>

BizDir == <<".bizmanage">>
SrcDir == <<"src">>
Types == <<"objects", "backend", "reports", "pages">>

NoReport == [none |-> TRUE]
NoCall ==
    [op |-> "none", path |-> [dir |-> <<>>, base |-> "", ext |-> ""], content |-> "",
     ret |-> FALSE, threw |-> FALSE, unreadable |-> {}]
NoResult == [kind |-> "none"]

\* { version: '1.0.0', hashes: {} }
EmptyHashes == [p \in Files |-> NoHash]

\* HashCacheService.cache before initialize, and once initialize has set it.
\* `rooted` tells whether cachePath has been set (by initialize).
Null == [loaded |-> FALSE, rooted |-> FALSE, hashes |-> EmptyHashes]
Loaded(hashes) == [loaded |-> TRUE, rooted |-> TRUE, hashes |-> hashes]

\* The service after a method that initialises it only when this.cache is null.
Kept(old, hashes) ==
    [loaded |-> TRUE, rooted |-> (IF old.loaded THEN old.rooted ELSE TRUE), hashes |-> hashes]

\* The cache file holding hashes.
FileWith(hashes) == [exists |-> TRUE, parses |-> TRUE, hashes |-> hashes]

\* A cache file whose bytes are not JSON: readJSON throws on it.
Unparsable == [exists |-> TRUE, parses |-> FALSE, hashes |-> EmptyHashes]

\* The `hashes` of a cache that has none: readJSON returned valid JSON of
\* another shape (an object without hashes), and initialize assigned it to
\* this.cache as it was. Every look-up in it is a TypeError.
UndefinedHashes == [p \in Files |-> "<undefined>"]

IsPrefix(s, t) == Len(s) <= Len(t) /\ SubSeq(t, 1, Len(s)) = s

\* The directories the model follows: the cache folder, src, and the folders
\* that hold the files.
Dirs == {BizDir, SrcDir} \cup {p.dir : p \in Files}

\* fs.ensureDir: the directory and every missing ancestor.
EnsureDir(d, dir) == d \cup ({SubSeq(dir, 1, n) : n \in 1..Len(dir)} \cap Dirs)

\* The project folder as the file argument of an error.
ProjectPath == [dir |-> ProjectRoot, base |-> "", ext |-> ""]

\* path.join(projectPath, relPath)
FullPath(rel) == [rel EXCEPT !.dir = ProjectRoot \o rel.dir]

\* path.relative(projectPath, filePath), separators normalised
getRelativePath(filePath) ==
    [filePath EXCEPT !.dir = SubSeq(filePath.dir, Len(ProjectRoot) + 1, Len(filePath.dir))]

FileName(p) == p.base \o p.ext

\* ------------------------------------------------------- HashCacheService

\* Variant: the error of readJSON leaves initialize.
InitializeThrowsOnParse(cf) == cf.exists /\ ~cf.parses

\* Does initialize throw? readJSON is inside try/catch, which only warns.
InitializeThrows(cf) == FALSE

\* initialize: the hashes of the cache file, or a new empty cache when the file
\* is missing or cannot be parsed.
LoadCache(cf) == IF cf.exists /\ cf.parses THEN cf.hashes ELSE EmptyHashes

\* if (!this.cache) await this.initialize(projectPath)
AutoInit(c, cf) == IF c.loaded THEN c.hashes ELSE LoadCache(cf)

\* Variant: every write is taken as needed.
shouldWriteFileAlways(c, filePath, content) == TRUE

shouldWriteFile(c, filePath, content) ==
    c[getRelativePath(filePath)] # calculateHash(content)

updateHash(c, filePath, content) ==
    [c EXCEPT ![getRelativePath(filePath)] = calculateHash(content)]

\* Variant: the stringified value is hashed without the final end of line
\* (the earlier revision of writeJSONIfChanged).
JsonHashContentNoEol(data) == JSONStringify(data)

\* The content writeJSONIfChanged hashes: the stringified value and the newline
\* that fs.writeJSON appends.
JsonHashContent(data) == JSONStringify(data) \o "\n"

\* How one conditional write can end: done, or an I/O error thrown by
\* fs.ensureDir or by the write itself.
WriteOutcomes == {"ok", "ensureDirThrows", "writeThrows"}

\* The body shared by writeFileIfChanged and writeJSONIfChanged: `hashed` is the
\* content that is compared and recorded, `bytes` what the writer puts on disk.
ConditionalWrite(c, f, d, filePath, hashed, bytes, outcome) ==
    LET rel == getRelativePath(filePath) IN
    IF c = UndefinedHashes
    THEN [cache |-> c, fs |-> f, dirs |-> d, ret |-> FALSE, threw |-> TRUE]
    ELSE IF shouldWriteFile(c, filePath, hashed)
    THEN IF outcome = "ok"
         THEN [cache |-> updateHash(c, filePath, hashed),
               fs |-> [f EXCEPT ![rel] = bytes],
               dirs |-> EnsureDir(d, rel.dir), ret |-> TRUE, threw |-> FALSE]
         ELSE [cache |-> c, fs |-> f,
               dirs |-> IF outcome = "writeThrows" THEN EnsureDir(d, rel.dir) ELSE d,
               ret |-> FALSE, threw |-> TRUE]
    ELSE [cache |-> c, fs |-> f, dirs |-> d, ret |-> FALSE, threw |-> FALSE]

writeFileIfChanged(c, f, d, filePath, content, outcome) ==
    ConditionalWrite(c, f, d, filePath, content, content, outcome)

writeJSONIfChanged(c, f, d, filePath, data, outcome) ==
    ConditionalWrite(c, f, d, filePath, JsonHashContent(data), WriteJSONBytes(data), outcome)

\* scanDir(path.join(srcPath, type), type): the regular files below src/<type>,
\* in enumeration order, .gitignore left out.
scanDir(type, f) ==
    SelectSeq(FileOrder, LAMBDA p : /\ f[p] # Absent
                                    /\ IsPrefix(<<"src", type>>, p.dir)
                                    /\ FileName(p) # ".gitignore")

TypeSet == {Types[i] : i \in 1..Len(Types)}

RECURSIVE SumLen(_, _)
SumLen(bucket, ts) ==
    IF ts = {} THEN 0
    ELSE LET t == CHOOSE x \in ts : TRUE IN Len(bucket[t]) + SumLen(bucket, ts \ {t})

EmptyChanges ==
    [changed |-> [t \in TypeSet |-> <<>>], new |-> [t \in TypeSet |-> <<>>],
     deleted |-> [t \in TypeSet |-> <<>>],
     total |-> [changed |-> 0, new |-> 0, deleted |-> 0]]

\* Is this file of the scan put in the `new` bucket, in the `changed` bucket?
\* (IsNewFileByDigest is a variant that looks the digest up under any path.)
IsNewFileByDigest(c, f, p) == \A q \in Files : c[q] # calculateHash(f[p])
IsNewFile(c, f, p) == c[p] = NoHash

\* getChanges: `unreadable` are the files whose read throws during this call.
getChanges(c, f, d, unreadable) ==
    IF SrcDir \notin d THEN EmptyChanges
    ELSE
    LET filesByType == [t \in TypeSet |-> scanDir(t, f)]
        \* cachedPath.includes('/<type>/') on a project-relative path
        includes(rel, name) == \E i \in 2..Len(rel.dir) : rel.dir[i] = name
        deletedType(rel) ==
            IF includes(rel, "backend") THEN "backend"
            ELSE IF includes(rel, "reports") THEN "reports"
            ELSE IF includes(rel, "pages") THEN "pages"
            ELSE "objects"
        currentFiles == UNION {{filesByType[t][i] : i \in 1..Len(filesByType[t])} : t \in TypeSet}
        readable(p) == p \notin unreadable
        changed == [t \in TypeSet |->
            SelectSeq(filesByType[t], LAMBDA p : readable(p) /\ ~IsNewFile(c, f, p)
                                                 /\ c[p] # calculateHash(f[p]))]
        new == [t \in TypeSet |->
            SelectSeq(filesByType[t], LAMBDA p : readable(p) /\ IsNewFile(c, f, p))]
        deleted == [t \in TypeSet |->
            SelectSeq(FileOrder, LAMBDA p : /\ c[p] # NoHash
                                            /\ p \notin currentFiles
                                            /\ p.dir # <<>> /\ p.dir[1] = "src"
                                            /\ deletedType(p) = t)]
    IN [changed |-> changed, new |-> new, deleted |-> deleted,
        total |-> [changed |-> SumLen(changed, TypeSet), new |-> SumLen(new, TypeSet),
                   deleted |-> SumLen(deleted, TypeSet)]]

\* ------------------------------------------------------------ PushService

\* normalized.includes('/<name>/') on an absolute path
HasSegment(full, name) == \E i \in 1..Len(full.dir) : full.dir[i] = name

NoType == "<none>"

\* Variant: whatever lies below an objects folder and is no action or field
\* counts as an object.
detectTypeByFolder(full) ==
    IF HasSegment(full, "objects") /\ HasSegment(full, "actions") THEN "action"
    ELSE IF HasSegment(full, "objects") /\ HasSegment(full, "fields") THEN "field"
    ELSE IF HasSegment(full, "objects") THEN "object"
    ELSE IF HasSegment(full, "backend") THEN "backend-script"
    ELSE IF HasSegment(full, "reports") THEN "report"
    ELSE IF HasSegment(full, "pages") THEN "page"
    ELSE NoType

\* detectType: the rules in the order the code tries them.
detectType(full) ==
    IF HasSegment(full, "objects") /\ FileName(full) = "definition.json" THEN "object"
    ELSE IF HasSegment(full, "objects") /\ HasSegment(full, "actions") THEN "action"
    ELSE IF HasSegment(full, "objects") /\ HasSegment(full, "fields") THEN "field"
    ELSE IF HasSegment(full, "backend") THEN "backend-script"
    ELSE IF HasSegment(full, "reports") THEN "report"
    ELSE IF HasSegment(full, "pages") THEN "page"
    ELSE NoType

\* The CustomizationFile of a discovered path: its content is read at discovery.
CustomizationFile(rel, f) ==
    [relativePath |-> rel, type |-> detectType(FullPath(rel)), content |-> f[rel]]

RECURSIVE Concat(_, _)
Concat(bucket, ts) ==
    IF ts = <<>> THEN <<>> ELSE bucket[Head(ts)] \o Concat(bucket, Tail(ts))

\* getChangedFiles, after initialize: the changed files, then the new files,
\* each bucket type by type; paths of no known shape are left out.
getChangedFiles(c, f, d) ==
    LET changes == getChanges(c, f, d, {})
        paths == Concat(changes.changed, Types) \o Concat(changes.new, Types)
        typed == SelectSeq(paths, LAMBDA p : detectType(FullPath(p)) # NoType)
    IN [i \in 1..Len(typed) |-> CustomizationFile(typed[i], f)]

\* pushAllFiles' scanDir(srcPath): every file below src whose name does not
\* start with a dot and whose path has a known shape.
scanAllFiles(f) ==
    LET typed == SelectSeq(FileOrder, LAMBDA p : /\ f[p] # Absent
                                                 /\ IsPrefix(SrcDir, p.dir)
                                                 /\ p.base # ""
                                                 /\ detectType(FullPath(p)) # NoType)
    IN [i \in 1..Len(typed) |-> CustomizationFile(typed[i], f)]

\* filePath.replace('.json', '.js') and the like: the sibling of a split artifact.
SiblingPath(rel, ext) == [rel EXCEPT !.ext = ext]

\* Does pushCustomization throw before anything is sent? The sibling a split
\* artifact needs is missing, or the file is of a kind the type does not take.
ThrowsBeforeSend(file, f) ==
    LET rel == file.relativePath IN
    CASE file.type = "backend-script" ->
            IF rel.ext = ".json" THEN f[SiblingPath(rel, ".js")] = Absent
            ELSE IF rel.ext = ".js" THEN f[SiblingPath(rel, ".json")] = Absent
            ELSE TRUE
      [] file.type = "page" ->
            IF rel.ext = ".json" THEN f[SiblingPath(rel, ".html")] = Absent
            ELSE IF rel.ext = ".html" THEN f[SiblingPath(rel, ".json")] = Absent
            ELSE TRUE
      [] file.type = "action" ->
            IF rel.ext = ".json" THEN FALSE
            ELSE IF rel.ext = ".js" THEN f[SiblingPath(rel, ".json")] = Absent
            ELSE TRUE
      \* /objects\/([^/]+)\/fields\// does not match the relative path
      [] file.type = "field" ->
            ~\E i \in 1..Len(rel.dir) : /\ rel.dir[i] = "objects" /\ i + 2 <= Len(rel.dir)
                                         /\ rel.dir[i + 2] = "fields"
      [] OTHER -> FALSE

\* pushReport sends nothing (a placeholder that waits and returns); every other
\* type ends in a call of the remote API, which can throw.
CallsRemote(file) == file.type # "report"

\* The file pushAction, pushBackendScript and pushPage look for next to the
\* file they are given, and loadMetadata next to a report's SQL file:
\* filePath.replace('.json', '.js') and the like. A file that has no other half
\* to look for is its own.
SiblingOf(file) ==
    LET rel == file.relativePath
        contentExt == CASE file.type = "page" -> ".html"
                        [] file.type = "report" -> ".sql"
                        [] file.type \in {"backend-script", "action"} -> ".js"
                        [] OTHER -> ""
    IN IF contentExt = "" THEN rel
       ELSE IF rel.ext = ".json" /\ file.type # "report" THEN SiblingPath(rel, contentExt)
       ELSE IF rel.ext = contentExt THEN SiblingPath(rel, ".json")
       ELSE rel

\* ------------------------------------------------ ProjectStructureService

getActionFileExtension(type) ==
    CASE type = "javascript" -> ".js"
      [] type \in {"configuration", "http", "link"} -> ".json"
      [] OTHER -> ".txt"

\* The two files the pull writes for one split artifact: writePages and
\* writeReports (content, <name>.meta.json), writeScripts (<name>.js,
\* <name>.json) and, for an action with code of an object, writeObjects.
PulledFiles(kind, objectName, name, type) ==
    LET dir == CASE kind = "page" -> <<"src", "pages">>
                 [] kind = "report" -> <<"src", "reports">>
                 [] kind = "script" -> <<"src", "backend">>
                 [] kind = "action" -> <<"src", "objects", sanitizeName(objectName), "actions">>
        ext == CASE kind = "page" -> ".html"
                 [] kind = "report" -> ".sql"
                 [] kind = "script" -> ".js"
                 [] kind = "action" -> getActionFileExtension(type)
        metaBase == IF kind = "script" THEN sanitizeName(name)
                    ELSE sanitizeName(name) \o ".meta"
    IN [content |-> [dir |-> dir, base |-> sanitizeName(name), ext |-> ext],
        meta |-> [dir |-> dir, base |-> metaBase, ext |-> ".json"]]

\* ------------------------------------------------------------ AuthService

\* Configuration aliases the user works with.
Aliases == {"default", "staging"}

\* What the user types at the instance-URL prompt of login, as a sequence of
\* characters (with a trailing slash).
InstanceUrlAnswer == <<"u", "/">>

\* input.trim()
RECURSIVE TrimStart(_)
TrimStart(str) ==
    IF str # <<>> /\ Head(str) = " " THEN TrimStart(Tail(str)) ELSE str

RECURSIVE TrimEnd(_)
TrimEnd(str) ==
    IF str # <<>> /\ str[Len(str)] = " " THEN TrimEnd(SubSeq(str, 1, Len(str) - 1)) ELSE str

Trim(str) == TrimEnd(TrimStart(str))

\* if (instanceUrl.endsWith('/')) instanceUrl = instanceUrl.slice(0, -1)
StripSlash(url) ==
    IF url # <<>> /\ url[Len(url)] = "/" THEN SubSeq(url, 1, Len(url) - 1) ELSE url

\* BizmanageService.ping: authenticated only on status 200; every error is
\* turned into a result.
ping(status) == [authenticated |-> status = 200, status |-> status]

NoConfig == [none |-> TRUE]
AuthConfig(instanceUrl, apiKey) == [instanceUrl |-> instanceUrl, apiKey |-> apiKey]

\* A Conf store without entries.
EmptyStore == [a \in Aliases |-> NoConfig]

NoAuthCall == [op |-> "none", alias |-> "", authenticated |-> FALSE, exitCode |-> "ok",
               config |-> NoConfig]

\* Nobody has logged in: both stores are empty. `loggedOutAll` tells that
\* logout --all has run and no login has saved anything since.
NoAuth == [config |-> EmptyStore, projectConfig |-> EmptyStore, loggedOutAll |-> FALSE,
           last |-> NoAuthCall]

\* AuthService.saveConfig of a service built with or without a project path.
saveConfig(a, useProjectConfig, alias, config) ==
    IF useProjectConfig THEN [a EXCEPT !.projectConfig[alias] = config]
    ELSE [a EXCEPT !.config[alias] = config]

\* AuthService.getConfig: the project store first, then the global one.
getConfig(a, hasProjectConfig, alias) ==
    IF hasProjectConfig /\ a.projectConfig[alias] # NoConfig THEN a.projectConfig[alias]
    ELSE a.config[alias]

\* AuthService.hasAlias
hasAlias(a, hasProjectConfig, alias) ==
    (hasProjectConfig /\ a.projectConfig[alias] # NoConfig) \/ a.config[alias] # NoConfig

\* AuthService.listAliases
listAliases(a, hasProjectConfig) ==
    {alias \in Aliases : hasAlias(a, hasProjectConfig, alias)}

\* AuthService.removeConfig
removeConfig(a, useProjectConfig, alias) ==
    IF useProjectConfig THEN [a EXCEPT !.projectConfig[alias] = NoConfig]
    ELSE [a EXCEPT !.config[alias] = NoConfig]

\* AuthService.clearAllConfigs: this.config.clear()
clearAllConfigs(a) == [a EXCEPT !.config = EmptyStore]

\* ------------------------------------------------------- overlapping runs

\* Most category writes (initialize ... save) one pull run makes.
MaxSegments == 2

\* The two runs; the other run of r is 3 - r.
Procs == {1, 2}

\* A run that has not started: `phase` is its position (new, loaded, saved,
\* ended), `segments` the number of times it has initialised its service
\* (a push does so once, a pull once per category write), `cache` the hashes
\* its service holds.
\* `updates` keeps, per path, the digest the run set last when that changed its
\* cache; `sawPeer` tells that the run has loaded the cache file after a save of
\* the other run; `saved` that a save of the run has written the file, and
\* `lastSaveOk` that its latest save has.
NewRun == [phase |-> "new", segments |-> 0, cache |-> EmptyHashes,
           updates |-> EmptyHashes, sawPeer |-> FALSE, saved |-> FALSE,
           lastSaveOk |-> FALSE]

\* In `runs`, `lastSaver` is the run whose save wrote the cache file last
\* (0: none); `overlapped` tells that one run has loaded the cache while the
\* other held a loaded cache it had still to save.

\* ------------------------------------------------------------ initial state

NothingWritten == [p \in Files |-> Absent]

\* An empty directory: nothing pulled yet, no cache file, no command running.
Init ==
    /\ fs = [p \in Files |-> Absent]
    /\ dirs = {}
    /\ cacheFile = [exists |-> FALSE, parses |-> TRUE, hashes |-> EmptyHashes]
    /\ cache = Null
    /\ pc = "idle"
    /\ queue = <<>>
    /\ result = NoResult
    /\ io = <<>>
    /\ report = NoReport
    /\ call = NoCall
    /\ written = NothingWritten
    /\ auth = NoAuth
    /\ runs = [proc |-> [r \in Procs |-> NewRun], lastSaver |-> 0, overlapped |-> FALSE]
    /\ active = {}

\* ------------------------------------------------- the user, between commands

\* The user creates or edits a file of the tree.
EditFile(p, content) ==
    /\ pc = "idle"
    /\ fs[p] # content
    /\ fs' = [fs EXCEPT ![p] = content]
    /\ dirs' = EnsureDir(dirs, p.dir)
    /\ report' = NoReport
    /\ call' = NoCall
    /\ UNCHANGED <<cacheFile, cache, pc, queue, result, io>>
    /\ UNCHANGED <<auth, runs, active>>
    /\ written' = [written EXCEPT ![p] = Absent]

\* The user deletes a file of the tree.
DeleteFile(p) ==
    /\ pc = "idle"
    /\ fs[p] # Absent
    /\ fs' = [fs EXCEPT ![p] = Absent]
    /\ report' = NoReport
    /\ call' = NoCall
    /\ UNCHANGED <<dirs, cacheFile, cache, pc, queue, result, io>>
    /\ UNCHANGED <<auth, runs, active>>
    /\ written' = [written EXCEPT ![p] = Absent]

\* ------------------------------------------------------------------- pull

NewResult(kind, category, fetched) ==
    [kind |-> kind, category |-> category, fetched |-> fetched, success |-> TRUE,
     itemCount |-> 0, pushedFiles |-> <<>>, skippedFiles |-> <<>>, errors |-> <<>>,
     validation |-> "none", tests |-> "none", exitCode |-> "running"]

\* A fetched list is an input of the command: the remote items it holds, each
\* once, by name; what an item holds is drawn when the loop reaches it.
Fetched(names) ==
    {q \in UNION {[1..n -> names] : n \in 0..MaxItems} :
        \A i, j \in 1..Len(q) : q[i] = q[j] => i = j}

\* Entries of io: a file written, a write skipped as unchanged (the content is
\* what would have been written), a payload sent, a write or push that failed
\* (the error the catch block logs), a remote fetch that threw, a save.
Entry(op, rel, content) == [op |-> op, path |-> rel, content |-> content]
ErrorEntry(rel) == [op |-> "error", path |-> rel, content |-> ""]
FetchErrorEntry(category) == [op |-> "fetchThrows", path |-> ProjectPath, content |-> category]
SaveEntry(ok) == [op |-> "save", path |-> [dir |-> BizDir, base |-> "file-hashes", ext |-> ".json"],
                  content |-> IF ok THEN "saved" ELSE "failed"]

\* io after one conditional write returned w for the file rel and content bytes.
Logged(log, w, rel, bytes) ==
    IF w.threw THEN Append(log, ErrorEntry(rel))
    ELSE IF w.ret THEN Append(log, Entry("write", rel, bytes))
    ELSE Append(log, Entry("skip", rel, bytes))

\* Variant: save keeps the entries of the file that the service does not hold.
SavedFileMerged(c, cf, ok) ==
    IF ok /\ c.loaded /\ c.rooted
    THEN FileWith([p \in Files |-> IF c.hashes[p] # NoHash THEN c.hashes[p]
                                    ELSE LoadCache(cf)[p]])
    ELSE cf

\* HashCacheService.save: errors of the write are caught and logged.
SavedFile(c, cf, ok) == IF ok /\ c.loaded /\ c.rooted THEN FileWith(c.hashes) ELSE cf

\* pull, up to the first category: the project is initialised when it is new or
\* --init is given; fetchTables returns the table T1 or throws (exit 1).
PullStart ==
    /\ pc = "idle"
    /\ \E init \in BOOLEAN, tablesOk \in BOOLEAN :
        \* initializeProject creates the source folders of a new project
        /\ dirs' = IF init \/ SrcDir \notin dirs
                   THEN dirs \cup (({SrcDir} \cup {<<"src", t>> : t \in TypeSet}) \cap Dirs)
                   ELSE dirs
        /\ IF tablesOk
           THEN /\ pc' = "fetchFields"
                /\ result' = NewResult("pull", "tables", 1)
           ELSE /\ pc' = "done"
                /\ result' = [NewResult("pull", "tables", 0) EXCEPT
                                 !.success = FALSE, !.exitCode = "failed"]
        /\ io' = IF tablesOk THEN <<>> ELSE <<FetchErrorEntry("tables")>>
    /\ cache' = Null
    /\ queue' = <<>>
    /\ report' = NoReport
    /\ call' = NoCall
    /\ UNCHANGED <<fs, cacheFile>>
    /\ UNCHANGED <<auth, runs, active>>
    /\ UNCHANGED written

fieldPath(objectName, field) ==
    [dir |-> <<"src", "objects", sanitizeName(objectName), "fields">>,
     base |-> sanitizeName(field.internal_name), ext |-> ".json"]

scriptCodePath(script) ==
    [dir |-> <<"src", "backend">>, base |-> sanitizeName(script.name), ext |-> ".js"]

scriptMetaPath(script) ==
    [dir |-> <<"src", "backend">>, base |-> sanitizeName(script.name), ext |-> ".json"]

\* Variant: no fetch failure ends the pull.
FatalFetchNone(category) == FALSE

\* Does a throwing fetch of this category end the pull? The fetch of one
\* table's fields is caught inside the loop over the tables and only warned
\* about; the others reach a catch block that exits with code 1.
FatalFetch(category) == category # "fields"

\* The catch block of a category whose fetch threw: exit with code 1, or a
\* warning and on to `next`.
FetchThrew(category) ==
    /\ io' = Append(io, FetchErrorEntry(category))
    /\ IF FatalFetch(category)
       THEN /\ pc' = "done"
            /\ result' = [NewResult("pull", category, 0) EXCEPT
                             !.success = FALSE, !.exitCode = "failed"]
       ELSE /\ pc' = IF category = "fields" THEN "fetchScripts" ELSE "done"
            /\ result' = IF category = "fields" THEN result
                          ELSE [NewResult("pull", category, 0) EXCEPT !.exitCode = "ok"]

\* fetchFields(T1), then the start of writeFields: initialize reloads the cache
\* from the cache file and the fields folder is ensured. A fetch that throws, or
\* returns no field, only moves the command on.
FetchFields ==
    /\ pc = "fetchFields"
    /\ \/ /\ FetchThrew("fields")
          /\ UNCHANGED <<dirs, cache, queue>>
       \/ \E fields \in Fetched({FieldName, FieldNameLower}) :
            /\ IF fields = <<>>
               THEN /\ pc' = "fetchScripts"
                    /\ UNCHANGED <<dirs, cache, queue, result>>
               ELSE /\ pc' = "writeFields"
                    /\ cache' = Loaded(LoadCache(cacheFile))
                    /\ dirs' = EnsureDir(EnsureDir(dirs, BizDir),
                                         <<"src", "objects", sanitizeName(TableName), "fields">>)
                    /\ queue' = fields
                    /\ result' = NewResult("pull", "fields", Len(fields))
            /\ io' = io
    /\ UNCHANGED <<fs, cacheFile, report, call>>
    /\ UNCHANGED <<auth, runs, active>>
    /\ UNCHANGED written

\* The catch block of a write method: the error is recorded and the method
\* returns without processing the rest and without saving.
Caught(res, rel) ==
    [res EXCEPT !.success = FALSE, !.errors = Append(res.errors, [file |-> rel])]

\* One iteration of writeFields' loop.
WriteFieldsItem ==
    /\ pc = "writeFields"
    /\ queue # <<>>
    /\ \E field \in {f \in FieldItems : f.internal_name = Head(queue)},
          outcome \in WriteOutcomes :
        LET rel == fieldPath(TableName, field)
            w == writeJSONIfChanged(cache.hashes, fs, dirs, FullPath(rel),
                                    FieldWithoutId(field), outcome)
        IN /\ fs' = w.fs
           /\ dirs' = w.dirs
           /\ cache' = Loaded(w.cache)
           /\ io' = Logged(io, w, rel, WriteJSONBytes(FieldWithoutId(field)))
           /\ IF w.threw
              THEN /\ result' = Caught(result, rel)
                   /\ queue' = <<>>
                   /\ pc' = "fetchScripts"
              ELSE /\ result' = [result EXCEPT !.itemCount = @ + 1]
                   /\ queue' = Tail(queue)
                   /\ pc' = pc
    /\ UNCHANGED <<cacheFile, report, call>>
    /\ UNCHANGED <<auth, runs, active>>
    /\ UNCHANGED written

\* Variant: only the last category of the pull saves the cache.
SavesCacheLastOnly(category) == category = "scripts"

\* Does the write method of this category call hashCache.save() after its
\* loop? Each of them does.
SavesCache(category) == TRUE

\* The end of a write method's try block.
SaveAfterLoop(category) ==
    IF SavesCache(category)
    THEN \E ok \in BOOLEAN :
            /\ cacheFile' = SavedFile(cache, cacheFile, ok)
            /\ io' = Append(io, SaveEntry(ok))
    ELSE UNCHANGED <<cacheFile, io>>

\* After the loop: writeFields saves the cache and returns.
WriteFieldsEnd ==
    /\ pc = "writeFields"
    /\ queue = <<>>
    /\ SaveAfterLoop("fields")
    /\ pc' = "fetchScripts"
    /\ UNCHANGED <<fs, dirs, cache, queue, result, report, call>>
    /\ UNCHANGED <<auth, runs, active>>
    /\ UNCHANGED written

\* fetchScripts, then the start of writeScripts. A fetch that throws ends the
\* pull with exit code 1.
FetchScripts ==
    /\ pc = "fetchScripts"
    /\ \/ /\ FetchThrew("scripts")
          /\ UNCHANGED <<dirs, cache, queue>>
       \/ \E scripts \in Fetched({ScriptName}) :
            /\ pc' = "writeScripts"
            /\ cache' = Loaded(LoadCache(cacheFile))
            /\ dirs' = EnsureDir(EnsureDir(dirs, BizDir), <<"src", "backend">>)
            /\ queue' = scripts
            /\ result' = NewResult("pull", "scripts", Len(scripts))
            /\ io' = io
    /\ UNCHANGED <<fs, cacheFile, report, call>>
    /\ UNCHANGED <<auth, runs, active>>
    /\ UNCHANGED written

\* One iteration of writeScripts' loop: the code file, then the metadata file.
\* A failed result makes the command exit with code 1.
WriteScriptsItem ==
    /\ pc = "writeScripts"
    /\ queue # <<>>
    /\ \E script \in {x \in ScriptItems : x.name = Head(queue)},
          o1 \in WriteOutcomes, o2 \in WriteOutcomes :
        LET js == scriptCodePath(script)
            json == scriptMetaPath(script)
            w1 == writeFileIfChanged(cache.hashes, fs, dirs, FullPath(js), script.code, o1)
            w2 == IF w1.threw THEN w1
                  ELSE writeJSONIfChanged(w1.cache, w1.fs, w1.dirs, FullPath(json),
                                          script.metadata, o2)
            io1 == Logged(io, w1, js, script.code)
        IN /\ w1.threw => o2 = "ok"
           /\ fs' = w2.fs
           /\ dirs' = w2.dirs
           /\ cache' = Loaded(w2.cache)
           /\ io' = IF w1.threw THEN io1
                    ELSE Logged(io1, w2, json, WriteJSONBytes(script.metadata))
           /\ IF w2.threw
              THEN /\ result' = [Caught(result, IF w1.threw THEN js ELSE json) EXCEPT
                                    !.exitCode = "failed"]
                   /\ queue' = <<>>
                   /\ pc' = "done"
              ELSE /\ result' = [result EXCEPT !.itemCount = @ + 1]
                   /\ queue' = Tail(queue)
                   /\ pc' = pc
    /\ UNCHANGED <<cacheFile, report, call>>
    /\ UNCHANGED <<auth, runs, active>>
    /\ UNCHANGED written

\* After the loop: writeScripts saves the cache and returns; the pull is complete.
WriteScriptsEnd ==
    /\ pc = "writeScripts"
    /\ queue = <<>>
    /\ SaveAfterLoop("scripts")
    /\ pc' = "done"
    /\ result' = [result EXCEPT !.exitCode = "ok"]
    /\ UNCHANGED <<fs, dirs, cache, queue, report, call>>
    /\ UNCHANGED <<auth, runs, active>>
    /\ UNCHANGED written

\* ------------------------------------------------------------------- push

\* How step 1 can end: skipped by --skip-validation; failed without a src
\* folder; passed when there is nothing to validate; else as the schemas decide.
Validations(skipValidation, all, c, f, d) ==
    LET \* the files step 1 validates: with --all every file below src whose
        \* name does not start with a dot, else the changed and new files
        changes == getChanges(c, f, d, {})
        paths == Concat(changes.changed, Types) \o Concat(changes.new, Types)
        filesToValidate ==
            IF all THEN {p \in Files : f[p] # Absent /\ IsPrefix(SrcDir, p.dir) /\ p.base # ""}
            ELSE {paths[i] : i \in 1..Len(paths)}
    IN
    IF skipValidation THEN {"skipped"}
    ELSE IF SrcDir \notin d THEN {"failed"}
    ELSE IF filesToValidate = {} THEN {"passed"}
    ELSE {"passed", "failed"}

\* How step 2 (npm test) can end; it is not run after a failed validation.
TestRuns(skipTests, validation) ==
    IF validation = "failed" THEN {"notRun"}
    ELSE IF skipTests THEN {"skipped"}
    ELSE {"passed", "failed"}

\* Variant: the deployment starts whatever steps 1 and 2 reported.
DeploysAnyway(validation, tests) == TRUE

\* Step 3 is reached unless a step before it called process.exit(1).
Deploys(validation, tests) == validation # "failed" /\ tests # "failed"

\* The push command up to step 3, for the flags the user gave.
Gates(all, c, f, d) ==
    {[validation |-> v, tests |-> t] :
        v \in UNION {Validations(skip, all, c, f, d) : skip \in BOOLEAN},
        t \in {"notRun", "skipped", "passed", "failed"}} \cap
    UNION {{[validation |-> v, tests |-> t] : t \in TestRuns(skipTests, v)} :
              v \in {"skipped", "passed", "failed"}, skipTests \in BOOLEAN}

\* The result of a push run that reached step 3: a step that was skipped and a
\* step that passed leave the same mark.
Cleared(res, gate) ==
    LET mark(outcome) == IF outcome \in {"skipped", "passed"} THEN "ok" ELSE outcome
    IN [res EXCEPT !.validation = mark(gate.validation), !.tests = mark(gate.tests)]

\* The command ends at step 1 or 2: exit code 1, no PushService is built.
\* validateChangedFiles has initialised a hash cache of its own by then.
Aborted(all, gate) ==
    /\ pc' = "done"
    /\ result' = [NewResult("push", IF all THEN "all" ELSE "changed", 0) EXCEPT
                      !.success = FALSE, !.exitCode = "failed",
                      !.validation = gate.validation, !.tests = gate.tests]
    /\ dirs' = IF ~all /\ gate.validation # "skipped" /\ SrcDir \in dirs
               THEN EnsureDir(dirs, BizDir) ELSE dirs
    /\ UNCHANGED <<cache, queue>>

\* push: steps 1 and 2, then pushChangedFiles up to its loop: getChangedFiles
\* initialises the cache and classifies; with nothing to push the result is
\* returned at once (no save).
PushChangedStart ==
    /\ pc = "idle"
    /\ \E gate \in Gates(FALSE, LoadCache(cacheFile), fs, EnsureDir(dirs, BizDir)) :
        IF ~Deploys(gate.validation, gate.tests)
        THEN Aborted(FALSE, gate)
        ELSE
          LET c == LoadCache(cacheFile)
              d == EnsureDir(dirs, BizDir)
              changedFiles == getChangedFiles(c, fs, d)
          IN /\ cache' = Loaded(c)
             /\ dirs' = d
             /\ queue' = changedFiles
             /\ IF changedFiles = <<>>
                THEN /\ pc' = "done"
                     /\ result' = Cleared([NewResult("push", "changed", 0) EXCEPT
                                               !.exitCode = "ok"], gate)
                ELSE /\ pc' = "pushing"
                     /\ result' = Cleared(NewResult("push", "changed", Len(changedFiles)), gate)
    /\ io' = <<>>
    /\ call' = NoCall
    /\ UNCHANGED <<fs, cacheFile, report>>
    /\ UNCHANGED <<auth, runs, active>>
    /\ UNCHANGED written

\* push --all: steps 1 and 2, then pushAllFiles up to its loop: without a src
\* folder the run fails at once; otherwise the whole tree is collected and the
\* cache initialised.
PushAllStart ==
    /\ pc = "idle"
    /\ \E gate \in Gates(TRUE, LoadCache(cacheFile), fs, dirs) :
        IF ~Deploys(gate.validation, gate.tests)
        THEN Aborted(TRUE, gate)
        ELSE IF SrcDir \notin dirs
        THEN /\ pc' = "done"
             /\ result' = Cleared([NewResult("push", "all", 0) EXCEPT
                                       !.success = FALSE, !.exitCode = "failed",
                                       !.errors = <<[file |-> ProjectPath, type |-> "project"]>>],
                                  gate)
             /\ UNCHANGED <<cache, dirs, queue>>
        ELSE /\ pc' = "pushing"
             /\ cache' = Loaded(LoadCache(cacheFile))
             /\ dirs' = EnsureDir(dirs, BizDir)
             /\ queue' = scanAllFiles(fs)
             /\ result' = Cleared(NewResult("push", "all", Len(scanAllFiles(fs))), gate)
    /\ io' = <<>>
    /\ call' = NoCall
    /\ UNCHANGED <<fs, cacheFile, report>>
    /\ UNCHANGED <<auth, runs, active>>
    /\ UNCHANGED written

\* The result after pushCustomization(file) returned or threw.
Pushed(res, file, outcome) ==
    IF outcome = "ok"
    THEN [res EXCEPT !.pushedFiles = Append(res.pushedFiles, file.relativePath)]
    ELSE [res EXCEPT !.success = FALSE,
                     !.errors = Append(res.errors,
                                       [file |-> file.relativePath, type |-> file.type])]

\* Variant: a push never records a hash.
HashAfterPushNever(c, file, outcome) == c

\* Variant: the hash is recorded whether or not the push succeeded.
HashAfterPushAlways(c, file, outcome) ==
    updateHash(c, FullPath(file.relativePath), file.content)

\* The cache after pushCustomization(file) returned or threw.
HashAfterPush(c, file, outcome) ==
    IF outcome = "ok" THEN updateHash(c, FullPath(file.relativePath), file.content) ELSE c

\* Variant: the first failure ends the loop.
RestAfterPushAbort(q, outcome) == IF outcome = "ok" THEN Tail(q) ELSE <<>>

\* The loop goes on to the next file whatever happened to this one.
RestAfterPush(q, outcome) == Tail(q)

\* One iteration of the push loop (the same in pushChangedFiles and pushAllFiles).
PushItem ==
    /\ pc = "pushing"
    /\ queue # <<>>
    /\ LET file == Head(queue) IN
       \* how pushCustomization(file) can end
       \E outcome \in IF ThrowsBeforeSend(file, fs) THEN {"throwsBeforeSend"}
                       ELSE IF CallsRemote(file) THEN {"ok", "sendThrows"}
                       ELSE {"ok"} :
        /\ result' = Pushed(result, file, outcome)
        /\ cache' = Loaded(HashAfterPush(cache.hashes, file, outcome))
        /\ io' = IF outcome # "ok" THEN Append(io, ErrorEntry(file.relativePath))
                 ELSE IF CallsRemote(file)
                 THEN Append(io, Entry("send", file.relativePath, file.content))
                 ELSE io
        /\ queue' = RestAfterPush(queue, outcome)
    /\ UNCHANGED <<fs, dirs, cacheFile, pc, report, call>>
    /\ UNCHANGED <<auth, runs, active>>
    /\ UNCHANGED written

\* Variant: the cache is saved only when every item was pushed.
SavesAfterBatchIfClean(res) == res.success

\* Is the cache saved after the loop? Whatever the result holds.
SavesAfterBatch(res) == TRUE

\* After the loop: the cache is saved and the result returned; the command
\* exits with code 1 when an item failed.
PushEnd ==
    /\ pc = "pushing"
    /\ queue = <<>>
    /\ IF SavesAfterBatch(result)
       THEN \E ok \in BOOLEAN :
               /\ cacheFile' = SavedFile(cache, cacheFile, ok)
               /\ io' = Append(io, SaveEntry(ok))
       ELSE UNCHANGED <<cacheFile, io>>
    /\ pc' = "done"
    /\ result' = [result EXCEPT !.exitCode = IF result.success THEN "ok" ELSE "failed"]
    /\ UNCHANGED <<fs, dirs, cache, queue, report, call>>
    /\ UNCHANGED <<auth, runs, active>>
    /\ UNCHANGED written

\* ----------------------------------------------------------- status, exit

\* status: a new HashCacheService is initialised and asked for the changes.
Status ==
    /\ pc = "idle"
    /\ report = NoReport
    /\ dirs' = EnsureDir(dirs, BizDir)
    /\ report' = getChanges(LoadCache(cacheFile), fs, dirs', {})
    /\ call' = NoCall
    /\ UNCHANGED <<fs, cacheFile, cache, pc, queue, result, io>>
    /\ UNCHANGED <<auth, runs, active>>
    /\ UNCHANGED written

\* The process of the finished command ends; its memory is gone, and what
\* status printed before the command is out of date.
Exit ==
    /\ pc = "done"
    /\ pc' = "idle"
    /\ cache' = Null
    /\ queue' = <<>>
    /\ result' = NoResult
    /\ io' = <<>>
    /\ report' = NoReport
    /\ written' = NothingWritten
    /\ UNCHANGED <<fs, dirs, cacheFile, call>>
    /\ UNCHANGED <<auth, runs, active>>

Next ==
    \/ \E p \in TrackedFiles : \E content \in ContentsOf(p) : EditFile(p, content)
    \/ \E p \in TrackedFiles : DeleteFile(p)
    \/ PullStart
    \/ FetchFields
    \/ WriteFieldsItem
    \/ WriteFieldsEnd
    \/ FetchScripts
    \/ WriteScriptsItem
    \/ WriteScriptsEnd
    \/ PushChangedStart
    \/ PushAllStart
    \/ PushItem
    \/ PushEnd
    \/ Status
    \/ Exit

Spec == Init /\ [][Next]_vars

\* ------------------------------------------- push on a tree with stray files

\* The commands that never write below src (push, push --all, status), on a tree
\* where the user also keeps a file outside the four source folders.
NextForce ==
    \/ \E p \in Files : \E content \in ContentsOf(p) : EditFile(p, content)
    \/ \E p \in Files : DeleteFile(p)
    \/ PushChangedStart
    \/ PushAllStart
    \/ PushItem
    \/ PushEnd
    \/ Status
    \/ Exit

SpecForce == Init /\ [][NextForce]_vars

\* ------------------------------------- one HashCacheService, call by call

\* What the last call was and what it returned.
CallOf(op, filePath, content, ret, threw) ==
    [op |-> op, path |-> getRelativePath(filePath), content |-> content, ret |-> ret,
     threw |-> threw, unreadable |-> {}]

Initialize ==
    /\ cache' = IF InitializeThrows(cacheFile) THEN cache ELSE Loaded(LoadCache(cacheFile))
    /\ dirs' = EnsureDir(dirs, BizDir)
    /\ call' = [NoCall EXCEPT !.op = "initialize", !.threw = InitializeThrows(cacheFile)]
    /\ report' = NoReport
    /\ UNCHANGED <<fs, cacheFile, pc, queue, result, io>>
    /\ UNCHANGED <<auth, runs, active>>
    /\ UNCHANGED written

ShouldWriteFile(p, content) ==
    /\ LET c == AutoInit(cache, cacheFile) IN
        /\ cache' = Kept(cache, c)
        /\ call' = CallOf("shouldWriteFile", FullPath(p), content,
                          c # UndefinedHashes /\ shouldWriteFile(c, FullPath(p), content),
                          c = UndefinedHashes)
    /\ dirs' = IF cache.loaded THEN dirs ELSE EnsureDir(dirs, BizDir)
    /\ report' = NoReport
    /\ UNCHANGED <<fs, cacheFile, pc, queue, result, io>>
    /\ UNCHANGED <<auth, runs, active>>
    /\ UNCHANGED written

UpdateHash(p, content) ==
    /\ LET c == AutoInit(cache, cacheFile) IN
        /\ cache' = Kept(cache, IF c = UndefinedHashes THEN c
                                ELSE updateHash(c, FullPath(p), content))
        /\ call' = CallOf("updateHash", FullPath(p), content, FALSE, c = UndefinedHashes)
    /\ dirs' = IF cache.loaded THEN dirs ELSE EnsureDir(dirs, BizDir)
    /\ report' = NoReport
    /\ UNCHANGED <<fs, cacheFile, pc, queue, result, io>>
    /\ UNCHANGED <<auth, runs, active>>
    /\ written' = IF written[p] = content THEN written ELSE [written EXCEPT ![p] = Absent]

\* writeFileIfChanged or writeJSONIfChanged returned w.
AfterWrite(op, p, content, w) ==
    /\ cache' = Kept(cache, w.cache)
    /\ fs' = w.fs
    /\ dirs' = w.dirs
    /\ call' = CallOf(op, FullPath(p), content, w.ret, w.threw)
    /\ report' = NoReport
    /\ UNCHANGED <<cacheFile, pc, queue, result, io>>
    /\ UNCHANGED <<auth, runs, active>>
    /\ written' = IF w.ret THEN [written EXCEPT ![p] = content] ELSE written

WriteFileIfChanged(p, content, outcome) ==
    LET d == IF cache.loaded THEN dirs ELSE EnsureDir(dirs, BizDir)
        w == writeFileIfChanged(AutoInit(cache, cacheFile), fs, d, FullPath(p), content, outcome)
    IN /\ (outcome # "ok" => w.threw)
       /\ AfterWrite("writeFileIfChanged", p, content, w)

WriteJSONIfChanged(p, data, outcome) ==
    LET d == IF cache.loaded THEN dirs ELSE EnsureDir(dirs, BizDir)
        w == writeJSONIfChanged(AutoInit(cache, cacheFile), fs, d, FullPath(p), data, outcome)
    IN /\ (outcome # "ok" => w.threw)
       /\ AfterWrite("writeJSONIfChanged", p, JsonHashContent(data), w)

\* Variant: the error of writeJSON leaves save.
SaveThrowsOnError(c, ok) == c.loaded /\ c.rooted /\ ~ok

\* Does save throw? writeJSON is inside try/catch, which only logs the error.
SaveThrows(c, ok) == FALSE

Save(ok) ==
    /\ cacheFile' = SavedFile(cache, cacheFile, ok)
    /\ cacheFile' # cacheFile \/ call.op # "save"
    /\ call' = [NoCall EXCEPT !.op = "save",
                              \* nothing without a cache or a cache path, else the write
                              !.content = IF ~(cache.loaded /\ cache.rooted) THEN ""
                                          ELSE IF ok THEN "saved" ELSE "failed",
                              !.threw = SaveThrows(cache, ok)]
    /\ report' = NoReport
    /\ UNCHANGED <<fs, dirs, cache, pc, queue, result, io>>
    /\ UNCHANGED <<auth, runs, active>>
    /\ UNCHANGED written

\* Variant: clear leaves the hashes in place.
clearNothing(c) == c

\* this.cache = { version: '1.0.0', hashes: {} }
clear(c) == EmptyHashes

\* clear: a new empty cache, then save (which returns at once when no
\* initialize has set cachePath, and catches the error of a failing write).
Clear(ok) ==
    /\ cache' = [loaded |-> TRUE, rooted |-> cache.rooted, hashes |-> clear(cache.hashes)]
    /\ cacheFile' = SavedFile(cache', cacheFile, ok)
    /\ call' = [NoCall EXCEPT !.op = "clear", !.threw = ~ok]
    /\ UNCHANGED <<fs, dirs, pc, queue, result, io, report>>
    /\ UNCHANGED <<auth, runs, active>>
    /\ written' = NothingWritten

GetChanges(unreadable, readdirThrows) ==
    /\ LET c == AutoInit(cache, cacheFile)
           d == IF cache.loaded THEN dirs ELSE EnsureDir(dirs, BizDir)
       IN /\ cache' = Kept(cache, c)
          /\ dirs' = d
          \* a readdir is reached only when src and the folder of a category
          \* exist (pathExists is asked before every readdir)
          /\ readdirThrows => SrcDir \in d /\ \E t \in TypeSet : <<"src", t>> \in d
          /\ LET threw == readdirThrows \/ (c = UndefinedHashes /\ SrcDir \in d) IN
              /\ report' = IF threw THEN NoReport ELSE getChanges(c, fs, d, unreadable)
              /\ call' = [NoCall EXCEPT !.op = "getChanges", !.unreadable = unreadable,
                                        !.threw = threw]
    /\ UNCHANGED <<fs, cacheFile, pc, queue, result, io>>
    /\ UNCHANGED <<auth, runs, active>>
    /\ UNCHANGED written

\* The bytes of the cache file are damaged from outside (an editor, a merge,
\* a write cut short): the file no longer parses, or it parses to an object
\* that has no hashes.
CorruptCacheFile ==
    /\ cacheFile.exists /\ cacheFile.parses /\ cacheFile.hashes # UndefinedHashes
    /\ cacheFile' \in {Unparsable, FileWith(UndefinedHashes)}
    /\ call' = NoCall
    /\ report' = NoReport
    /\ UNCHANGED <<auth, runs, active>>
    /\ UNCHANGED <<fs, dirs, cache, pc, queue, result, io, written>>

\* The process holding the service ends.
Restart ==
    /\ cache.loaded
    /\ cache' = Null
    /\ call' = NoCall
    /\ report' = NoReport
    /\ UNCHANGED <<fs, dirs, cacheFile, pc, queue, result, io>>
    /\ UNCHANGED <<auth, runs, active>>
    /\ written' = NothingWritten

NextCache ==
    \/ \E p \in ApiFiles : \E content \in ContentsOf(p) : EditFile(p, content)
    \/ \E p \in ApiFiles : DeleteFile(p)
    \/ Initialize
    \/ \E content \in ScriptCode : ShouldWriteFile(ScriptJs, content)
    \/ \E p \in ApiFiles, content \in ScriptCode : UpdateHash(p, content)
    \/ \E content \in ScriptCode, outcome \in WriteOutcomes :
            WriteFileIfChanged(ScriptJs, content, outcome)
    \/ \E field \in FieldItems, outcome \in WriteOutcomes :
            WriteJSONIfChanged(FieldF, FieldWithoutId(field), outcome)
    \/ \E ok \in BOOLEAN : Save(ok)
    \/ \E ok \in BOOLEAN : Clear(ok)
    \/ \E unreadable \in SUBSET ApiFiles : GetChanges(unreadable, FALSE)
    \/ GetChanges({}, TRUE)
    \/ CorruptCacheFile
    \/ Restart

SpecCache == Init /\ [][NextCache]_vars

\* ------------------------------------------------- SpecAuth: login, logout

\* Variant: the configuration is saved whatever the ping reported.
SavesConfigAlways(pingResult) == TRUE

\* login saves inside `if (pingResult.authenticated)`.
SavesConfig(pingResult) == pingResult.authenticated

\* bizmanage login [-a alias] [-p project]: the answers are trimmed for the
\* ping and saved as typed; saveConfig can throw (exit 1).
Login(alias, project, apiKey, status, saved) ==
    LET pingResult == ping(status)
        answers == AuthConfig(InstanceUrlAnswer, apiKey)
    IN
    /\ pc = "idle"
    /\ saved \/ SavesConfig(pingResult)
    /\ dirs' = IF project /\ SavesConfig(pingResult) THEN EnsureDir(dirs, BizDir) ELSE dirs
    /\ auth' =
         LET a == IF SavesConfig(pingResult) /\ saved
                  THEN [saveConfig(auth, project, alias, answers) EXCEPT !.loggedOutAll = FALSE]
                  ELSE auth
         IN [a EXCEPT !.last = [op |-> "login", alias |-> alias,
                                authenticated |-> pingResult.authenticated,
                                exitCode |-> IF SavesConfig(pingResult) /\ saved
                                             THEN "ok" ELSE "failed",
                                config |-> AuthConfig(StripSlash(Trim(InstanceUrlAnswer)),
                                                      Trim(apiKey))]]
    /\ UNCHANGED <<fs, cacheFile, cache, pc, queue, result, io, report, call, written, runs, active>>

\* bizmanage logout [-a alias]: new AuthService() has the global store only.
Logout(alias) ==
    /\ pc = "idle"
    /\ auth' = [(IF hasAlias(auth, FALSE, alias) THEN removeConfig(auth, FALSE, alias)
                 ELSE auth)
                    EXCEPT !.last = [NoAuthCall EXCEPT !.op = "logout", !.alias = alias]]
    /\ UNCHANGED <<fs, dirs, cacheFile, cache, pc, queue, result, io, report, call, written, runs, active>>

\* bizmanage logout --all
LogoutAll ==
    /\ pc = "idle"
    /\ auth' = [(IF listAliases(auth, FALSE) = {} THEN auth ELSE clearAllConfigs(auth))
                    EXCEPT !.loggedOutAll = TRUE,
                           !.last = [NoAuthCall EXCEPT !.op = "logoutAll"]]
    /\ UNCHANGED <<fs, dirs, cacheFile, cache, pc, queue, result, io, report, call, written, runs, active>>

\* A later command asks for the alias' configuration: pull and status build
\* AuthService(projectPath), push and test build AuthService().
GetConfig(alias, project) ==
    /\ pc = "idle"
    /\ dirs' = IF project THEN EnsureDir(dirs, BizDir) ELSE dirs
    /\ auth' = [auth EXCEPT !.last = [NoAuthCall EXCEPT !.op = "getConfig", !.alias = alias,
                                          !.config = getConfig(auth, project, alias)]]
    /\ UNCHANGED <<fs, cacheFile, cache, pc, queue, result, io, report, call, written, runs, active>>

NextAuth ==
    \* the API keys typed at the prompt (one with a blank after it) and the
    \* HTTP statuses GET /restapi/ping ends with (0 stands for no response)
    \/ \E alias \in Aliases, project \in BOOLEAN,
          apiKey \in {<<"k", "1">>, <<"k", "2", " ">>},
          status \in {200, 204, 403, 0}, saved \in BOOLEAN :
            Login(alias, project, apiKey, status, saved)
    \/ \E alias \in Aliases : Logout(alias)
    \/ LogoutAll
    \/ \E alias \in Aliases, project \in BOOLEAN : GetConfig(alias, project)

SpecAuth == Init /\ [][NextAuth]_vars

\* ------------------------------------------- SpecRace: two runs, one project

\* hashCache.initialize of run r: a push does it once (getChangedFiles, or
\* pushAllFiles), a pull at the start of every category write.
RunInitialize(r) ==
    LET run == runs.proc[r] IN
    /\ pc = "idle"
    /\ run.phase \in {"new", "saved"}
    /\ run.segments < MaxSegments
    /\ runs' = [runs EXCEPT
                   !.proc[r] = [run EXCEPT !.phase = "loaded",
                                           !.segments = run.segments + 1,
                                           !.cache = LoadCache(cacheFile),
                                           !.sawPeer = run.sawPeer \/ runs.proc[3 - r].saved],
                   !.overlapped = runs.overlapped \/ runs.proc[3 - r].phase = "loaded"]
    /\ dirs' = EnsureDir(dirs, BizDir)
    /\ UNCHANGED <<fs, cacheFile, cache, pc, queue, result, io, report, call, written, auth, active>>

\* Run r records a digest: a file it wrote (pull) or pushed (push).
RunUpdateHash(r, p, content) ==
    LET run == runs.proc[r]
        c == updateHash(run.cache, FullPath(p), content)
    IN
    /\ pc = "idle"
    /\ run.phase = "loaded"
    /\ c # run.cache
    /\ runs' = [runs EXCEPT !.proc[r] = [run EXCEPT !.cache = c,
                                                     !.updates[p] = calculateHash(content)]]
    /\ UNCHANGED <<fs, dirs, cacheFile, cache, pc, queue, result, io, report, call, written,
                   auth, active>>

\* hashCache.save of run r, after its loop.
RunSave(r, ok) ==
    LET run == runs.proc[r] IN
    /\ pc = "idle"
    /\ run.phase = "loaded"
    /\ cacheFile' = SavedFile(Loaded(run.cache), cacheFile, ok)
    /\ runs' = [runs EXCEPT !.proc[r] = [run EXCEPT !.phase = "saved",
                                                     !.saved = run.saved \/ ok,
                                                     !.lastSaveOk = ok],
                            !.lastSaver = IF ok THEN r ELSE runs.lastSaver]
    /\ UNCHANGED <<fs, dirs, cache, pc, queue, result, io, report, call, written, auth, active>>

\* The process of run r ends.
RunEnd(r) ==
    LET run == runs.proc[r] IN
    /\ pc = "idle"
    /\ run.phase = "saved"
    /\ runs' = [runs EXCEPT !.proc[r] = [run EXCEPT !.phase = "ended"]]
    /\ UNCHANGED <<fs, dirs, cacheFile, cache, pc, queue, result, io, report, call, written,
                   auth, active>>

NextRace ==
    \/ \E r \in Procs : RunInitialize(r)
    \* what the runs write: either code of the script, the field F1
    \/ \E r \in Procs, p \in ApiFiles :
        \E content \in IF p = ScriptJs THEN ScriptCode
                        ELSE {WriteJSONBytes(FieldWithoutId(d)) :
                                 d \in {x \in FieldData : x.internal_name = FieldName}} :
            RunUpdateHash(r, p, content)
    \/ \E r \in Procs, ok \in BOOLEAN : RunSave(r, ok)
    \/ \E r \in Procs : RunEnd(r)

SpecRace == Init /\ [][NextRace]_vars

\* ------------------------------------------- SpecInterrupt: a pull cut short

\* The process of a running pull is stopped from outside (Ctrl-C, a kill, a
\* crash) between two steps: its memory is gone, and with it the hashes set
\* since the last save. In this specification `written` keeps the files the
\* stopped run wrote whose digest the cache file does not hold, with the
\* content it left in them, until the next run that ends has exited.
Interrupt ==
    /\ pc \in {"fetchFields", "writeFields", "fetchScripts", "writeScripts"}
    /\ pc' = "idle"
    /\ cache' = Null
    /\ queue' = <<>>
    /\ result' = NoResult
    /\ io' = <<>>
    /\ report' = NoReport
    /\ written' = [p \in Files |->
                     IF /\ \E i \in 1..Len(io) : io[i].op = "write" /\ io[i].path = p
                        /\ LoadCache(cacheFile)[p] # calculateHash(fs[p])
                     THEN fs[p] ELSE written[p]]
    /\ UNCHANGED <<fs, dirs, cacheFile, call, auth, runs, active>>

NextInterrupt ==
    \/ PullStart
    \/ FetchFields
    \/ WriteFieldsItem
    \/ WriteFieldsEnd
    \/ FetchScripts
    \/ WriteScriptsItem
    \/ WriteScriptsEnd
    \/ Interrupt
    \/ Exit

SpecInterrupt == Init /\ [][NextInterrupt]_vars

\* ------------------------------------ SpecPaths: push of what pull wrote

\* The pull has written the two files of one split artifact, and push is
\* given one of them (`half`): `queue` holds the two files, `call` the file
\* pushed, the type detected for it and whether the file push looks for next
\* to it is the other file of the pair.
PushPulled(kind, objectName, name, type, half) ==
    LET pair == PulledFiles(kind, objectName, name, type)
        rel == pair[half]
        file == [relativePath |-> rel, type |-> detectType(FullPath(rel)), content |-> ""]
    IN /\ pc = "idle" /\ call.op \in {"none", "pushPulled"}
       /\ queue' = <<pair.content, pair.meta>>
       /\ call' = [op |-> "pushPulled", path |-> rel, content |-> file.type,
                   ret |-> (SiblingOf(file) \in {pair.content, pair.meta} \ {rel}),
                   threw |-> FALSE, unreadable |-> {}]
       /\ UNCHANGED <<fs, dirs, cacheFile, cache, pc, result, io, report, written, auth, runs, active>>

NextPaths ==
    \E kind \in {"page", "report", "script", "action"}, objectName \in RemoteNames,
       name \in RemoteNames, type \in {"javascript", "http", "workflow"},
       half \in {"content", "meta"} :
        PushPulled(kind, objectName, name, type, half)

SpecPaths == Init /\ [][NextPaths]_vars

\* ------------------------------ SpecSteps: what a run has in progress at once

\* Variant: every loop starts all its operations before it waits for one.
BatchAll(kind, n) == n

\* How many of the n operations that are waiting the code starts before it
\* waits for one to return: the four scanDir calls of getChanges are the
\* elements of one Promise.all; a push or a write loop awaits each item.
Batch(kind, n) == IF kind = "scan" THEN n ELSE 1

\* push, up to the scans of getChanges (none without a src folder).
BeginPush ==
    /\ pc = "idle"
    /\ pc' = "scanning"
    /\ queue' = IF SrcDir \in dirs
                THEN [i \in 1..Len(Types) |-> [kind |-> "scan", id |-> Types[i]]]
                ELSE <<>>
    /\ UNCHANGED <<fs, dirs, cacheFile, cache, result, io, report, call, written, auth, runs,
                   active>>

\* pull, up to its write loops: the files of the fetched fields, then those of
\* the fetched scripts, each written by a conditional write of its own.
BeginPull ==
    /\ pc = "idle"
    /\ \E fields \in Fetched({FieldName, FieldNameLower}), scripts \in Fetched({ScriptName}) :
        LET fieldFiles == [i \in 1..Len(fields) |->
                              [dir |-> <<"src", "objects", sanitizeName(TableName), "fields">>,
                               base |-> sanitizeName(fields[i]), ext |-> ".json"]]
            scriptFiles == IF scripts = <<>> THEN <<>> ELSE <<ScriptJs, ScriptJson>>
            files == fieldFiles \o scriptFiles
        IN queue' = [i \in 1..Len(files) |-> [kind |-> "write", id |-> files[i]]]
    /\ pc' = "writing"
    /\ UNCHANGED <<fs, dirs, cacheFile, cache, result, io, report, call, written, auth, runs,
                   active>>

\* The running loop (or Promise.all) starts its next operations.
StartOps ==
    /\ pc \in {"scanning", "sending", "writing"}
    /\ active = {} /\ queue # <<>>
    /\ LET k == Batch(Head(queue).kind, Len(queue)) IN
        /\ active' = {queue[i] : i \in 1..k}
        /\ queue' = SubSeq(queue, k + 1, Len(queue))
    /\ UNCHANGED <<fs, dirs, cacheFile, cache, pc, result, io, report, call, written, auth, runs>>

\* One of the operations in progress returns (or throws).
OpReturns(op) ==
    /\ op \in active
    /\ active' = active \ {op}
    /\ UNCHANGED <<fs, dirs, cacheFile, cache, pc, queue, result, io, report, call, written,
                   auth, runs>>

\* Everything started has returned and nothing waits: after the scans the
\* changed and new files are pushed one by one; after the loop the run ends.
PhaseEnds ==
    /\ pc \in {"scanning", "sending", "writing"}
    /\ active = {} /\ queue = <<>>
    /\ IF pc = "scanning"
       THEN LET files == getChangedFiles(LoadCache(cacheFile), fs, dirs)
            IN /\ queue' = [i \in 1..Len(files) |->
                               [kind |-> "send", id |-> files[i].relativePath]]
               /\ pc' = "sending"
       ELSE /\ queue' = <<>>
            /\ pc' = "idle"
    /\ UNCHANGED <<fs, dirs, cacheFile, cache, result, io, report, call, written, auth, runs,
                   active>>

NextSteps ==
    \/ \E p \in TrackedFiles : \E content \in ContentsOf(p) : EditFile(p, content)
    \/ \E p \in TrackedFiles : DeleteFile(p)
    \/ BeginPush
    \/ BeginPull
    \/ StartOps
    \/ \E op \in active : OpReturns(op)
    \/ PhaseEnds

SpecSteps == Init /\ [][NextSteps]_vars

\* ================================================================ properties

\* Does a bucket of a change report list the path?
InBucket(bucket, p) == \E t \in TypeSet : \E i \in 1..Len(bucket[t]) : bucket[t][i] = p

\* The bucket in which a change report lists the path, or "none".
BucketOf(changes, p) ==
    IF InBucket(changes.changed, p) THEN "changed"
    ELSE IF InBucket(changes.new, p) THEN "new"
    ELSE IF InBucket(changes.deleted, p) THEN "deleted"
    ELSE "none"

\* What getChanges returns to a process started now (the status command).
ChangesOnDisk == getChanges(LoadCache(cacheFile), fs, EnsureDir(dirs, BizDir), {})

\* The files a result reports in errors.
FailedFiles(res) == {res.errors[i].file : i \in 1..Len(res.errors)} \ {ProjectPath}

\* The files a push result reports in pushedFiles.
PushedFiles(res) == {res.pushedFiles[i] : i \in 1..Len(res.pushedFiles)}

\* ---------------------------------------------------------------------- C1
\* C1: in every pull and push run, a file's cache entry is set to a new digest
\* only after the write of that content to disk (pull) or its transmission to the
\* remote (push) has completed: whenever the running command holds for a path a
\* digest other than the saved one, the run has completed a write or a
\* transmission of content with that digest for that path.
C1_HashOnlyAfterSuccess ==
    \A p \in Files :
        (cache.loaded /\ cache.hashes[p] # LoadCache(cacheFile)[p]) =>
            \E i \in 1..Len(io) : /\ io[i].op \in {"write", "send"}
                                  /\ io[i].path = p
                                  /\ calculateHash(io[i].content) = cache.hashes[p]

\* ---------------------------------------------------------------------- C2
\* C2 as stated: when the push of a file F threw, a getChanges call after the
\* run classifies F as changed.
C2_FailedStaysChanged ==
    (pc = "done" /\ result.kind = "push") =>
        \A F \in FailedFiles(result) : BucketOf(ChangesOnDisk, F) = "changed"

\* C2, amended: when the push of a file F threw, the run leaves F's cache entry
\* as it was, in memory and in the saved cache, and a getChanges call after the
\* run classifies F as one before the run did; for an incremental push that is
\* changed when the cache holds a digest for F and new when it holds none.
C2_FailedKeepsItsClass ==
    [][(pc = "pushing" /\ pc' = "done") =>
        \A F \in FailedFiles(result') :
            /\ cache'.hashes[F] = LoadCache(cacheFile)[F]
            /\ LoadCache(cacheFile')[F] = LoadCache(cacheFile)[F]
            /\ BucketOf(ChangesOnDisk', F) = BucketOf(ChangesOnDisk, F)
            /\ result'.category = "changed" =>
                   BucketOf(ChangesOnDisk', F) =
                       IF LoadCache(cacheFile')[F] = NoHash THEN "new" ELSE "changed"]_vars

\* A finished incremental push, its cache saved, in which one file was
\* transmitted and the transmission of another, already cached, threw.
C2_Witness ==
    /\ pc = "done" /\ result.kind = "push" /\ result.category = "changed"
    /\ io # <<>> /\ io[Len(io)] = SaveEntry(TRUE)
    /\ PushedFiles(result) # {}
    /\ \E F \in FailedFiles(result) :
            /\ LoadCache(cacheFile)[F] # NoHash
            /\ ~ThrowsBeforeSend(CustomizationFile(F, fs), fs)

\* ---------------------------------------------------------------------- C3
\* C3: when writeFileIfChanged or writeJSONIfChanged has written content C at
\* path P, the same call made again with the same P and C returns false and
\* touches nothing: no directory is created, no file is written and the
\* cache is left as it was.
C3_SecondWriteTouchesNothing ==
    [][(/\ call.op \in {"writeFileIfChanged", "writeJSONIfChanged"}
        /\ call.ret
        /\ call'.op = call.op /\ call'.path = call.path /\ call'.content = call.content)
       => (/\ ~call'.ret /\ ~call'.threw
           /\ fs' = fs /\ dirs' = dirs /\ cache' = cache /\ cacheFile' = cacheFile)]_vars

\* The second of two equal writeJSONIfChanged calls has returned false; the file
\* holds the bytes of the first.
C3_Witness ==
    /\ call.op = "writeJSONIfChanged" /\ ~call.ret /\ ~call.threw
    /\ cache.hashes[call.path] = calculateHash(call.content)
    /\ fs[call.path] = call.content

\* ---------------------------------------------------------------------- C4
\* A regular file that getChanges' scan enumerates: below one of the four
\* source folders, src present.
Enumerated(p) ==
    /\ fs[p] # Absent /\ SrcDir \in dirs
    /\ Len(p.dir) >= 2 /\ p.dir[1] = "src" /\ p.dir[2] \in TypeSet
    /\ FileName(p) # ".gitignore"

\* C4: getChanges classifies each file it enumerates and can read by its own
\* path: new when the cache has no digest for the path, changed when the cache
\* has a digest for the path that differs from the digest of the file's content,
\* and in no bucket when the cached digest equals it.
C4_ClassifiedPerPath ==
    (call.op = "getChanges" /\ ~call.threw) =>
        \A p \in Files : (Enumerated(p) /\ p \notin call.unreadable) =>
            LET cached == cache.hashes[p] IN
            /\ cached = NoHash => BucketOf(report, p) = "new"
            /\ (cached # NoHash /\ cached # calculateHash(fs[p])) =>
                   BucketOf(report, p) = "changed" /\ ~InBucket(report.new, p)
            /\ cached = calculateHash(fs[p]) => BucketOf(report, p) = "none"

\* A report that lists a file as new although the cache holds the digest of its
\* content under another path, next to a file listed as changed.
C4_Witness ==
    /\ call.op = "getChanges" /\ ~call.threw /\ call.unreadable = {}
    /\ Enumerated(ScriptJs) /\ BucketOf(report, ScriptJs) = "new"
    /\ cache.hashes[FieldF] = calculateHash(fs[ScriptJs])
    /\ Enumerated(FieldF) /\ BucketOf(report, FieldF) = "changed"

\* ---------------------------------------------------------------------- C5
\* Cache and tree are byte-identical: every cached path exists on disk with
\* content of the cached digest, and every file of the scan is cached.
ByteIdentical(c) ==
    /\ \A p \in Files : c[p] # NoHash => fs[p] # Absent /\ c[p] = calculateHash(fs[p])
    /\ \A p \in Files : Enumerated(p) => c[p] # NoHash

\* C5: given a cache and a live tree that are byte-identical, getChanges
\* returns empty changed, new and deleted buckets and zero totals.
C5_IdenticalMeansEmpty ==
    (pc = "idle" /\ report # NoReport /\ ByteIdentical(LoadCache(cacheFile))) => report = EmptyChanges

\* ---------------------------------------------------------------------- C6
\* The files the running command has written.
WrittenFiles == {io[i].path : i \in {j \in 1..Len(io) : io[j].op = "write"}}

\* A pull has completed, every category wrote its items and saved its hashes,
\* and the tree and the saved cache hold nothing but what this pull wrote.
PulledFresh ==
    /\ pc = "done" /\ result.kind = "pull" /\ result.exitCode = "ok"
    /\ \A i \in 1..Len(io) : io[i].op # "error" /\ io[i] # SaveEntry(FALSE)
    /\ \A p \in Files :
           (fs[p] # Absent \/ LoadCache(cacheFile)[p] # NoHash) => p \in WrittenFiles

\* C6: after a pull that populates N files and saves N hashes, getChanges run
\* at once on the same project returns empty changed, new and deleted
\* groupings and zero totals; the digest saved for every file written, JSON
\* files included, is the digest of the bytes on disk.
C6_FreshPullIsClean ==
    PulledFresh =>
        /\ ChangesOnDisk = EmptyChanges
        /\ \A p \in WrittenFiles : LoadCache(cacheFile)[p] = calculateHash(fs[p])

\* A fresh pull that wrote the field file and both files of the script.
C6_Witness == PulledFresh /\ WrittenFiles = {FieldF, ScriptJs, ScriptJson}

\* ---------------------------------------------------------------------- C7
\* C7: a tracked file edited locally (the saved cache holds a digest for it that
\* differs from its content's) is reported under changed by getChanges; once an
\* incremental push has transmitted a file and updated its hash, getChanges
\* reports no change for that path, asked of the running service or, the cache
\* saved, of a new one.
C7_EditedThenPushed ==
    /\ (pc = "idle" /\ report # NoReport) =>
           \A p \in Files :
               (/\ Enumerated(p)
                /\ LoadCache(cacheFile)[p] \notin {NoHash, calculateHash(fs[p])})
               => InBucket(report.changed, p)
    /\ (pc = "done" /\ result.kind = "push" /\ result.category = "changed") =>
           \A p \in PushedFiles(result) :
               /\ BucketOf(getChanges(cache.hashes, fs, dirs, {}), p) = "none"
               /\ io[Len(io)] = SaveEntry(TRUE) => BucketOf(ChangesOnDisk, p) = "none"

\* status listed the script's code file as changed, the push that followed
\* transmitted it and saved the cache, and it is no longer listed.
C7_Witness ==
    /\ pc = "done" /\ result.kind = "push" /\ result.category = "changed"
    /\ report # NoReport /\ InBucket(report.changed, ScriptJs)
    /\ ScriptJs \in PushedFiles(result)
    /\ io[Len(io)] = SaveEntry(TRUE)
    /\ BucketOf(ChangesOnDisk, ScriptJs) = "none"

\* ---------------------------------------------------------------------- C8
\* The conditional writes of the running pull that decide what a file should
\* hold: for each path the last one that returned.
LastWriteCall(i) ==
    /\ io[i].op \in {"write", "skip"}
    /\ \A j \in (i + 1)..Len(io) :
           ~(io[j].op \in {"write", "skip"} /\ io[j].path = io[i].path)

\* C8: remote wins on pull. After a pull has completed successfully, the local
\* file of every pulled item holds the content fetched from the remote, whatever
\* was edited or deleted locally since the previous sync.
C8_RemoteWinsOnPull ==
    (pc = "done" /\ result.kind = "pull" /\ result.exitCode = "ok") =>
        \A i \in 1..Len(io) : LastWriteCall(i) => fs[io[i].path] = io[i].content

\* ---------------------------------------------------------------------- C9
\* C9: a push item whose mandatory sibling file is missing is reported in
\* errors and never in pushedFiles, and the run goes on: every item of the
\* batch is either still waiting, in errors, or in pushedFiles, none is waiting
\* when the run has ended, and exactly the items that failed are in errors.
C9_MissingSiblingIsolated ==
    (result.kind = "push" /\ pc \in {"pushing", "done"}
        /\ ProjectPath \notin {result.errors[i].file : i \in 1..Len(result.errors)}) =>
        /\ Len(result.pushedFiles) + Len(result.errors) + Len(queue) = result.fetched
        /\ pc = "done" => queue = <<>>
        /\ \A p \in PushedFiles(result) : ~ThrowsBeforeSend(CustomizationFile(p, fs), fs)
        /\ FailedFiles(result) = {io[i].path : i \in {j \in 1..Len(io) : io[j].op = "error"}}
        /\ PushedFiles(result) \cap FailedFiles(result) = {}

\* A finished push in which the code file of a script failed for want of its
\* metadata file and the field file, next in the batch, was then transmitted.
C9_Witness ==
    /\ pc = "done" /\ result.kind = "push"
    /\ fs[ScriptJs] # Absent /\ fs[ScriptJson] = Absent
    /\ ScriptJs \in FailedFiles(result)
    /\ FieldF \in PushedFiles(result)
    /\ \E i, j \in 1..Len(io) : /\ i < j
                                 /\ io[i] = ErrorEntry(ScriptJs)
                                 /\ io[j].op = "send" /\ io[j].path = FieldF

\* --------------------------------------------------------------------- C10
\* C10: during a pull, the failure of one item to serialise or be written is
\* recorded in the category's error list and does not stop the remaining items
\* of the category: when the category's write has returned, every fetched item
\* was either written (counted) or recorded as failed.
C10_PullGoesOnAfterFailure ==
    (result.kind = "pull" /\ result.category \in {"fields", "scripts"}
        /\ pc \notin {"writeFields", "writeScripts"}) =>
        result.itemCount + Len(result.errors) = result.fetched

\* --------------------------------------------------------------------- C11
\* C11 as stated: a remote fetch that throws for a category is fatal to the
\* pull: nothing is done after it, the command has stopped and its exit code
\* reports the failure.
C11_FetchFailureIsFatal ==
    \A i \in 1..Len(io) :
        io[i].op = "fetchThrows" =>
            i = Len(io) /\ pc = "done" /\ result.exitCode = "failed"

\* C11, amended: a throwing fetch of the tables or of the scripts is fatal in
\* that way; a throwing fetch of one table's fields is not: the pull goes on
\* with the next category and ends with the exit code the rest of the run
\* earns.
C11_FatalExceptPerTable ==
    \A i \in 1..Len(io) :
        io[i].op = "fetchThrows" =>
            IF io[i].content \in {"tables", "scripts"}
            THEN i = Len(io) /\ pc = "done" /\ result.exitCode = "failed"
                             /\ result.category = io[i].content
            ELSE /\ pc \in {"fetchScripts", "writeScripts", "done"}
                 /\ pc = "done" => result.category = "scripts"

\* A pull that wrote the field file, then lost the fetch of the scripts and
\* stopped with exit code 1.
C11_Witness ==
    /\ pc = "done" /\ result.kind = "pull" /\ result.exitCode = "failed"
    /\ io[Len(io)] = FetchErrorEntry("scripts")
    /\ FieldF \in WrittenFiles
    /\ SaveEntry(TRUE) \in {io[i] : i \in 1..Len(io)}

\* --------------------------------------------------------------------- C12
\* How often the running command has saved the cache (attempts included).
SaveCount == Cardinality({i \in 1..Len(io) : io[i].op = "save"})

\* The write method of the fields category ran to its end: it processed an
\* item and no item threw.
FieldsCompleted ==
    /\ \E i \in 1..Len(io) : io[i].op \in {"write", "skip"} /\ io[i].path = FieldF
    /\ \A i \in 1..Len(io) : io[i] # ErrorEntry(FieldF)

AttemptedBatch ==
    /\ result.kind = "push"
    /\ result.validation # "failed" /\ result.tests # "failed"
    /\ ~(result.category = "changed" /\ result.fetched = 0)
    /\ \A i \in 1..Len(result.errors) : result.errors[i].file # ProjectPath

C14_InitializeIdempotent ==
    [][(call'.op = "initialize" /\ cache.loaded) => cache' = cache]_vars

\* --------------------------------------------------------------------- C15
\* C15: after a successful conditional write of content C at path P,
\* shouldWriteFile for P and C returns false in every later state, until the
\* cache is cleared or the file changes again, whatever other cache operations
\* (initialize, save, getChanges, writes to other paths) happen in between.
C15_WrittenStaysUnchanged ==
    \A p \in Files :
        written[p] # Absent =>
            ~shouldWriteFile(AutoInit(cache, cacheFile), FullPath(p), written[p])

\* --------------------------------------------------------------------- C16
\* C16: after clear(), the next getChanges call reports as new every file
\* that the report before the clear held unchanged (enumerated, in no bucket),
\* although its content on disk is the same.
C16_ClearedFilesAreNew ==
    [][(call.op = "clear" /\ call'.op = "getChanges" /\ ~call'.threw /\ report # NoReport) =>
        \A p \in Files :
            (Enumerated(p) /\ BucketOf(report, p) = "none" /\ p \notin call'.unreadable)
            => (fs'[p] = fs[p] /\ BucketOf(report', p) = "new")]_vars

\* getChanges has reported the script's code file as new on an emptied cache,
\* while the digest saved before the clear (the clear's own save failed) still
\* equals that of the file's content.
C16_Witness ==
    /\ call.op = "getChanges" /\ ~call.threw /\ call.unreadable = {}
    /\ cache.hashes = EmptyHashes
    /\ Enumerated(ScriptJs) /\ BucketOf(report, ScriptJs) = "new"
    /\ cacheFile.hashes[ScriptJs] = calculateHash(fs[ScriptJs])

\* --------------------------------------------------------------------- C17
\* C17: clear() resets the cache to empty and persists it at once: when clear()
\* has returned (the write of the file did not fail), the cache file holds an
\* empty hashes mapping, in whatever state the service was when it was called.
C17_ClearPersistsEmpty ==
    (call.op = "clear" /\ ~call.threw) =>
        cache.hashes = EmptyHashes /\ cacheFile = FileWith(EmptyHashes)

\* --------------------------------------------------------------------- C18
\* A pull has completed: every fetch returned, no item failed, every save
\* succeeded.
PullCompletedClean ==
    /\ pc = "done" /\ result.kind = "pull" /\ result.exitCode = "ok"
    /\ \A i \in 1..Len(io) : /\ io[i].op \notin {"error", "fetchThrows"}
                              /\ io[i] # SaveEntry(FALSE)

\* The number of files a pull writes that starts from the cache c and issues
\* the conditional writes of the log again, in the same order.
RECURSIVE WritesOnRerun(_, _)
WritesOnRerun(log, c) ==
    IF log = <<>> THEN 0
    ELSE LET e == Head(log) IN
         IF e.op \in {"write", "skip"} /\ shouldWriteFile(c, FullPath(e.path), e.content)
         THEN 1 + WritesOnRerun(Tail(log), updateHash(c, FullPath(e.path), e.content))
         ELSE WritesOnRerun(Tail(log), c)

\* C18: at most one write when unchanged. A pull run again when nothing changed
\* remotely or locally since the previous completed pull (the same items are
\* fetched, the saved cache is the one that pull left) writes no artifact file.
C18_RerunWritesNothing ==
    PullCompletedClean => WritesOnRerun(io, LoadCache(cacheFile)) = 0

\* --------------------------------------------------------------------- C19
\* The path lies under one of the four category subtrees of src.
UnderTrackedSubtree(p) == Len(p.dir) >= 2 /\ p.dir[1] = "src" /\ p.dir[2] \in TypeSet

\* C19: getChanges classifies a cached path as deleted exactly when the path
\* is absent from the current enumeration and lies under a tracked category
\* subtree, and it lists the path under the category whose subtree holds it.
C19_DeletedExactly ==
    (pc = "idle" /\ report # NoReport) =>
        \A p \in Files :
            /\ InBucket(report.deleted, p) <=>
                   (/\ LoadCache(cacheFile)[p] # NoHash
                    /\ ~Enumerated(p)
                    /\ UnderTrackedSubtree(p))
            /\ InBucket(report.deleted, p) =>
                   \E i \in 1..Len(report.deleted[p.dir[2]]) : report.deleted[p.dir[2]][i] = p

\* --------------------------------------------------------------------- C20
\* The name of the file starts with a dot.
IsDotFile(p) == p.base = ""

\* C20: the change classifier enumerates every regular file under each tracked
\* category subtree except hidden (dot) files: no file whose name starts with
\* a dot ever appears in a change report, and every other file of a category
\* subtree that differs from its cache entry does.
C20_NoDotFileReported ==
    (pc = "idle" /\ report # NoReport) =>
        \A p \in Files :
            /\ IsDotFile(p) => BucketOf(report, p) = "none"
            /\ (/\ ~IsDotFile(p) /\ fs[p] # Absent /\ UnderTrackedSubtree(p)
                /\ LoadCache(cacheFile)[p] # calculateHash(fs[p]))
                   => BucketOf(report, p) \in {"new", "changed"}

\* --------------------------------------------------------------------- C21
\* C21: a file read error or a directory enumeration error during
\* classification is recovered locally: getChanges does not throw, the path
\* that could not be read is in no bucket of the report, and every other
\* enumerated path is classified as it is without the error.
C21_ScanErrorsRecovered ==
    call.op = "getChanges" =>
        /\ ~call.threw
        /\ \A p \in Files : Enumerated(p) =>
               BucketOf(report, p) =
                   IF p \in call.unreadable THEN "none"
                   ELSE BucketOf(getChanges(cache.hashes, fs, dirs, {}), p)

\* --------------------------------------------------------------------- C22
\* The path shapes of the six customization types: an object's definition
\* file, a file below an object's actions or fields folder, a file below a
\* backend, reports or pages folder.
KnownShape(p) ==
    LET has(name) == \E i \in 1..Len(p.dir) : p.dir[i] = name IN
    \/ has("objects") /\ (FileName(p) = "definition.json" \/ has("actions") \/ has("fields"))
    \/ has("backend") \/ has("reports") \/ has("pages")

\* The paths a push run has handled so far: sent, failed, or still waiting.
HandledByPush ==
    {io[i].path : i \in {j \in 1..Len(io) : io[j].op \in {"send", "error"}}}
        \cup PushedFiles(result) \cup FailedFiles(result)
        \cup {queue[i].relativePath : i \in 1..Len(queue)}

\* C22: in a push run, a discovered path that matches none of the known path
\* shapes is excluded from the run: it is not queued, not transmitted, not
\* listed as pushed, and it produces no error entry.
C22_UnknownShapeExcluded ==
    (pc \in {"pushing", "done"} /\ result.kind = "push") =>
        \A p \in Files : ~KnownShape(p) => p \notin HandledByPush

\* An incremental push has ended with the script sent while the notes file,
\* on disk and in no cache (so discovered as new), took no part in the run.
C22_Witness ==
    /\ pc = "done" /\ result.kind = "push" /\ result.category = "changed"
    /\ fs[Notes] # Absent /\ cache.hashes[Notes] = NoHash
    /\ ~KnownShape(Notes)
    /\ ScriptJs \in PushedFiles(result)
    /\ Notes \notin HandledByPush

\* --------------------------------------------------------------------- C23
\* The paths a push result reports in skippedFiles.
SkippedFiles(res) == {res.skippedFiles[i] : i \in 1..Len(res.skippedFiles)}

\* The paths the sends of a push run carried.
SentFiles == {io[i].path : i \in {j \in 1..Len(io) : io[j].op = "send"}}

\* C23: the push result has a success flag that is false if any item failed,
\* a list of the successfully pushed relative paths, and a list of skipped
\* paths that contains the discovered paths that were already up to date
\* (their digest in the cache the run started from equals that of their
\* content). Stated on the step that ends the loop, before the cache is saved.
C23_ResultShape ==
    [][(pc = "pushing" /\ pc' = "done") =>
        LET discovered == PushedFiles(result') \cup FailedFiles(result') IN
        /\ result'.success <=> FailedFiles(result') = {}
        /\ SentFiles \subseteq PushedFiles(result') \cup FailedFiles(result')
        /\ \A p \in discovered :
               LoadCache(cacheFile)[p] = calculateHash(fs[p]) => p \in SkippedFiles(result')]_vars

\* --------------------------------------------------------------------- C24
\* C24: shouldWriteFile is side-effect-free: a call changes neither the
\* in-memory cache nor anything on disk (files, folders, the cache file), in
\* whatever state the service is when it is called.
C24_ShouldWriteIsPure ==
    [][call'.op = "shouldWriteFile" =>
        /\ cache' = cache
        /\ fs' = fs /\ dirs' = dirs /\ cacheFile' = cacheFile]_vars

\* --------------------------------------------------------------------- C25
\* C25: when the cache file exists but cannot be parsed, initialize never
\* throws: it continues with a fresh empty cache (and leaves the file alone).
C25_CorruptCacheIsEmpty ==
    [][(call'.op = "initialize" /\ cacheFile.exists /\ ~cacheFile.parses) =>
        /\ ~call'.threw
        /\ cache' = Loaded(EmptyHashes)
        /\ cacheFile' = cacheFile]_vars

\* initialize has run on an unparsable cache file while the service held
\* digests in memory: the service now holds an empty cache.
C25_Witness ==
    /\ call.op = "initialize" /\ ~call.threw
    /\ cacheFile = Unparsable
    /\ cache = Loaded(EmptyHashes)
    /\ fs[ScriptJs] # Absent /\ written[ScriptJs] # Absent

\* --------------------------------------------------------------------- C26
\* C26: a storage I/O error during save is caught, never propagated to the
\* caller, and leaves the in-memory cache of the current run unchanged.
C26_SaveFailureIsLocal ==
    [][(call'.op = "save" /\ call'.content = "failed") =>
        /\ ~call'.threw
        /\ cache' = cache]_vars

\* A save has failed while the service held a digest the cache file lacks: the
\* digest is still in memory.
C26_Witness ==
    /\ call.op = "save" /\ call.content = "failed" /\ ~call.threw
    /\ cache.hashes[ScriptJs] # NoHash
    /\ LoadCache(cacheFile)[ScriptJs] = NoHash

\* --------------------------------------------------------------------- C27
\* C27: login saves the API key configuration only if the authentication
\* test succeeds: a login run in which the ping did not report authenticated
\* stores nothing (both stores are what they were) and exits with code 1.
C27_SavedOnlyIfAuthenticated ==
    [][(auth'.last.op = "login" /\ ~auth'.last.authenticated) =>
        /\ auth'.config = auth.config
        /\ auth'.projectConfig = auth.projectConfig
        /\ auth'.last.exitCode = "failed"]_vars

\* A login whose ping failed has left the alias as an earlier, successful
\* login had saved it.
C27_Witness ==
    /\ auth.last.op = "login" /\ ~auth.last.authenticated /\ auth.last.alias = "default"
    /\ auth.config["default"] # NoConfig
    /\ auth.config["default"].apiKey # auth.last.config.apiKey
    /\ auth.projectConfig["default"] = NoConfig

\* --------------------------------------------------------------------- C28
\* C28: logout removes all traces of API keys: once logout of all
\* configurations has run, and until a login saves again, no command
\* retrieves a saved configuration for any alias, wherever login stored it.
C28_LogoutAllRemovesEveryKey ==
    (auth.last.op = "getConfig" /\ auth.loggedOutAll) => auth.last.config = NoConfig

\* --------------------------------------------------------------------- C29
\* C29: in a push invocation, validation and test execution come before
\* deployment: unless the step is skipped by its flag, no file is transmitted
\* (nor queued, nor hashed) in an invocation whose validation or tests
\* failed, and that invocation exits with code 1.
C29_NoDeployAfterFailedChecks ==
    (pc \in {"pushing", "done"} /\ result.kind = "push"
        /\ (result.validation = "failed" \/ result.tests = "failed")) =>
        /\ pc = "done" /\ result.exitCode = "failed"
        /\ SentFiles = {} /\ PushedFiles(result) = {} /\ queue = <<>>
        /\ ~cache.loaded

\* A push has ended at step 2: its tests failed after the validation had
\* passed, while a changed script was waiting to be pushed.
C29_Witness ==
    /\ pc = "done" /\ result.kind = "push"
    /\ result.validation = "passed" /\ result.tests = "failed"
    /\ fs[ScriptJs] # Absent /\ fs[ScriptJson] # Absent
    /\ LoadCache(cacheFile)[ScriptJs] # calculateHash(fs[ScriptJs])
    /\ SentFiles = {}

\* --------------------------------------------------------------------- C30
\* Both runs have ended after having overlapped, and run r saved last (the
\* last save it made wrote the file, and no save wrote it after that).
LastSaverOfOverlap(r) ==
    /\ runs.overlapped /\ runs.lastSaver = r /\ runs.proc[r].lastSaveOk
    /\ \A q \in Procs : runs.proc[q].phase = "ended"

\* The cache file holds, for some path, a digest that only the other run set.
KeepsUpdateOfPeer(r) ==
    \E p \in Files :
        /\ runs.proc[3 - r].updates[p] # NoHash
        /\ runs.proc[r].updates[p] = NoHash
        /\ LoadCache(cacheFile)[p] = runs.proc[3 - r].updates[p]

C34_GetChangesWritesNothing ==
    [][call'.op = "getChanges" =>
        /\ fs' = fs /\ dirs' = dirs /\ cacheFile' = cacheFile
        /\ cache.loaded => cache'.hashes = cache.hashes]_vars

\* --------------------------------------------------------------------- C36
\* The transmissions of the running push that carried the backend script s1:
\* those sent for its code file and those sent for its metadata file.
ScriptSends == {i \in 1..Len(io) : io[i].op = "send" /\ io[i].path \in {ScriptJs, ScriptJson}}

\* C36: in one push run each logical customization item is transmitted at most
\* once, even when both its content file and its metadata file are discovered.
C36_ItemSentAtMostOnce ==
    result.kind = "push" => Cardinality(ScriptSends) <= 1

\* --------------------------------------------------------------------- C37
\* The relative paths of a sequence of discovered files.
PathsOf(files) == {files[i].relativePath : i \in 1..Len(files)}

\* C37: on the same project tree, the files an incremental push discovers (the
\* changed and the new files) are among those a force push of the entire tree
\* discovers.
C37_IncrementalWithinForce ==
    PathsOf(getChangedFiles(LoadCache(cacheFile), fs, EnsureDir(dirs, BizDir)))
        \subseteq PathsOf(scanAllFiles(fs))

\* --------------------------------------------------------------------- C38
\* C38: within one pull, two distinct remote items of the same category are
\* never written to the same local file path. A fetched list holds each item
\* once and an item writes each of its files once, so two writes of the running
\* pull to one path are the writes of two items.
C38_OnePathOneItem ==
    \A i, j \in 1..Len(io) :
        (i < j /\ io[i].op = "write" /\ io[j].op = "write") => io[i].path # io[j].path

\* --------------------------------------------------------------------- C39
\* C39: after initialize returns, the in-memory cache is a record with a hashes
\* mapping, whatever the cache file holds, so that no later look-up or update
\* of a hash fails on a malformed cache.
C39_CacheHasHashes ==
    /\ (call.op = "initialize" /\ ~call.threw) =>
           cache.loaded /\ cache.hashes # UndefinedHashes
    /\ call.op \in {"shouldWriteFile", "updateHash"} => ~call.threw

\* --------------------------------------------------------------------- C31
\* The running pull processed the file p: it wrote it or skipped the write.
Reprocessed(p) == \E i \in 1..Len(io) : io[i].op \in {"write", "skip"} /\ io[i].path = p

\* C31: an interrupted run is healed by the next run. When a pull stopped after
\* writing files and before the save, and the next pull has completed and has
\* processed those files again, each of them is on disk and the saved cache
\* holds the digest of what is on disk.
C31_InterruptHealed ==
    PullCompletedClean =>
        \A p \in Files :
            (written[p] # Absent /\ Reprocessed(p)) =>
                /\ fs[p] # Absent
                /\ LoadCache(cacheFile)[p] = calculateHash(fs[p])

\* --------------------------------------------------------------------- C33
\* C33: the path-shape rules are tried in a fixed order with the action rule
\* before the object rule: a path under an object's actions folder is always
\* categorised as an action, never as an object.
C33_ActionBeforeObject ==
    (/\ call.op = "pushPulled"
     /\ Len(call.path.dir) = 4 /\ call.path.dir[2] = "objects" /\ call.path.dir[4] = "actions")
    => call.content = "action"

\* --------------------------------------------------------------------- C35
\* C35: pull and push agree on the sibling naming convention: for every split
\* artifact that pull writes as a content file plus a metadata file, a push of
\* either file looks for its sibling at the path of the other file pull wrote.
C35_SiblingConventionAgrees ==
    call.op = "pushPulled" =>
        \E i, j \in 1..2 :
            /\ i # j /\ queue[i] = call.path
            /\ SiblingOf([relativePath |-> call.path, type |-> call.content,
                          content |-> ""]) = queue[j]

\* --------------------------------------------------------------------- C32
\* C32: there is no parallel execution within one pull or push run: at no
\* moment are two category scans, item writes or transmissions of the same
\* run in progress together.
C32_OneAtATime == Cardinality(active) <= 1

\* C32 as the code has it: item writes and transmissions are in progress one
\* at a time and never while a scan is; only the category scans of the change
\* classifier are in progress together.
C32_OnlyScansOverlap ==
    \A a, b \in active : a # b => a.kind = "scan" /\ b.kind = "scan"

\* A push has two files to send: one transmission is in progress and the
\* other file waits for it to return.
C32_Witness ==
    /\ pc = "sending" /\ queue # <<>>
    /\ \E a \in active : active = {a} /\ a.kind = "send"

====
